---- MODULE Spec2Model ----
(***************************************************************************)
(* Model of the Rust code generator of autocxx                             *)
(* (engine/src/conversion/codegen_rs/mod.rs).                              *)
(*                                                                         *)
(* Two machines are modelled:                                              *)
(*   - the generator itself, RsCodeGenerator::rs_codegen: the two          *)
(*     accumulation passes, the per-item emission, the two namespace       *)
(*     trees and the flat assembly (specification Spec);                   *)
(*   - the body that generate_subclass_fn emits for a forwarding function, *)
(*     executed against the host object's holder and its RefCell           *)
(*     (specification SpecFwd).                                            *)
(*                                                                         *)
(* Syntax (syn Items, ForeignItems, ...) is represented by records with a  *)
(* tag field t; an Option is a sequence of length 0 or 1; a HashMap is a   *)
(* set of [k, v] pairs; a Rust String is a TLA+ string and format!() is    *)
(* string concatenation.                                                   *)
(***************************************************************************)
EXTENDS Integers, Sequences, FiniteSets, TLC

VARIABLES
    apis,                    \* all_apis: Vec<Api<FnPhase>>, the generator's input
    self,                    \* the RsCodeGenerator: include_list, original_name_map, config
    pc,                      \* position inside rs_codegen
    run,                     \* which call of generate_rs_code this is (1 or 2)
    methods_by_superclass,   \* HashMap<QualifiedName, Vec<SuperclassMethod>>
    trivial_subclasses,      \* subclasses_with_a_single_trivial_constructor
    results,                 \* rs_codegen_results_and_namespaces
    use_statements,          \* output of generate_final_use_statements
    bindgen_root_items,      \* output of generate_final_bindgen_mods
    all_items,               \* the Vec<Item> rs_codegen returns
    prev_all_items,          \* what the previous call returned for the same input
    owner_alive,             \* the host side still owns the Rust object of the subclass
    borrow_flag,             \* the RefCell's flag: 0 free, n > 0 shared, -1 exclusive
    stack,                   \* the forwarding calls in progress, innermost last
    fault,                   \* the panic message the process died with, if any
    host_calls,              \* the host methods invoked so far: [callee, args]
    calls                    \* how many forwarding calls the foreign side has made

genvars == <<apis, self, pc, run, methods_by_superclass, trivial_subclasses,
             results, use_statements, bindgen_root_items, all_items, prev_all_items>>

rtvars == <<owner_alive, borrow_flag, stack, fault, host_calls, calls>>

vars == <<genvars, rtvars>>

(***************************************************************************)
(* Bounds of the model.                                                    *)
(***************************************************************************)
MaxApis == 3

MaxCalls == 3

MaxDepth == 3

\* the longest list of APIs around a derived type
MaxDerivedApis == 4

(***************************************************************************)
(* Small helpers over sequences, Options and maps.                         *)
(***************************************************************************)
None == <<>>

Some(x) == <<x>>

IsSome(o) == Len(o) > 0

RECURSIVE Flatten(_)
Flatten(ss) == IF ss = <<>> THEN <<>> ELSE Head(ss) \o Flatten(Tail(ss))

\* HashMap::get
MapGet(m, k) ==
    LET hits == {e \in m : e.k = k}
    IN  IF hits = {} THEN None ELSE Some((CHOOSE e \in hits : TRUE).v)

(***************************************************************************)
(* types.rs: QualifiedName and Namespace.                                  *)
(***************************************************************************)
QualifiedName_new(ns, id) == [ns |-> ns, name |-> id]

\* "a::b::C" is held as <<"a", "b", "C">>
new_from_cpp_name(cpp) ==
    [ns |-> SubSeq(cpp, 1, Len(cpp) - 1), name |-> cpp[Len(cpp)]]

get_final_ident(qn) == qn.name

depth(ns) == Len(ns)

get_bindgen_path_idents(qn) == <<"bindgen", "root">> \o qn.ns \o <<qn.name>>

to_type_path(qn) == <<"root">> \o qn.ns \o <<qn.name>>

\* impl Display for QualifiedName: the segments joined by "::"
RECURSIVE join_ns(_)
join_ns(ns) == IF ns = <<>> THEN "" ELSE Head(ns) \o "::" \o join_ns(Tail(ns))

QualifiedName_to_string(qn) == join_ns(qn.ns) \o qn.name

(***************************************************************************)
(* api.rs: SubclassName.  A subclass S has the holder SHolder, the C++    *)
(* peer SCpp and, for a superclass B, the traits B_supers and B_methods.   *)
(***************************************************************************)
with_qualifier(sub, qualifier) == sub.name \o qualifier

SubclassName_id(sub) == get_final_ident(sub)

SubclassName_holder(sub) == with_qualifier(sub, "Holder")

SubclassName_cpp(sub) == QualifiedName_new(sub.ns, with_qualifier(sub, "Cpp"))

cpp_remove_ownership(sub) == with_qualifier(sub, "Cpp_remove_ownership")

remove_ownership(sub) == with_qualifier(sub, "_remove_ownership")

get_supers_trait_name(superclass) ==
    QualifiedName_new(superclass.ns, superclass.name \o "_supers")

get_methods_trait_name(superclass) ==
    QualifiedName_new(superclass.ns, superclass.name \o "_methods")

(***************************************************************************)
(* The accumulation passes of rs_codegen.                                  *)
(***************************************************************************)
\* struct SuperclassMethod, built at lines 288-297
SuperclassMethod(api) ==
    [name                |-> get_final_ident(api.name),
     params              |-> api.params,
     ret_type            |-> api.ret_type,
     param_names         |-> [i \in 1..Len(api.param_details) |-> api.param_details[i].name],
     receiver_mutability |-> api.receiver_mutability,
     requires_unsafe     |-> \E i \in 1..Len(api.param_details) :
                                 api.param_details[i].requires_unsafe]

\* accumulate_step without the match on the method kind
accumulate_step_any_method(res, api) ==
    IF /\ api.api = "Function"
       /\ api.fnkind = "Method"
       /\ IsSome(MapGet(res, api.receiver))
    THEN {IF e.k = api.receiver
          THEN [e EXCEPT !.v = Append(@, SuperclassMethod(api))]
          ELSE e : e \in res}
    ELSE res

\* the body of the for loop of accumulate_superclass_methods
accumulate_step(res, api) ==
    IF /\ api.api = "Function"
       /\ api.fnkind = "Method"
       /\ api.method_kind \in {"Virtual", "PureVirtual"}
       /\ IsSome(MapGet(res, api.receiver))
    THEN {IF e.k = api.receiver
          THEN [e EXCEPT !.v = Append(@, SuperclassMethod(api))]
          ELSE e : e \in res}
    ELSE res

\* the loop of accumulate_superclass_methods ending before the last API
RECURSIVE accumulate_loop_without_last(_, _, _)
accumulate_loop_without_last(res, apis_, i) ==
    IF i >= Len(apis_) THEN res
    ELSE accumulate_loop_without_last(accumulate_step(res, apis_[i]), apis_, i + 1)

RECURSIVE accumulate_loop(_, _, _)
accumulate_loop(res, apis_, i) ==
    IF i > Len(apis_) THEN res
    ELSE accumulate_loop(accumulate_step(res, apis_[i]), apis_, i + 1)

accumulate_superclass_methods(cfg, apis_) ==
    accumulate_loop({[k |-> new_from_cpp_name(sc), v |-> <<>>] : sc \in cfg.superclasses},
                    apis_, 1)

\* the (subclass, is_trivial) pairs of the RustSubclassConstructor items
constructor_pairs(apis_) ==
    LET ctors == SelectSeq(apis_, LAMBDA api : api.api = "RustSubclassConstructor")
    IN  {[qn |-> ctors[i].subclass, trivial |-> ctors[i].is_trivial] : i \in 1..Len(ctors)}

\* find_trivially_constructed_subclasses without the set difference
find_subclasses_with_a_trivial_constructor(apis_) ==
    {p.qn : p \in {q \in constructor_pairs(apis_) : q.trivial}}

find_trivially_constructed_subclasses(apis_) ==
    LET simple_constructors  == {p.qn : p \in {q \in constructor_pairs(apis_) : q.trivial}}
        complex_constructors == {p.qn : p \in {q \in constructor_pairs(apis_) : ~q.trivial}}
    IN  simple_constructors \ complex_constructors

(***************************************************************************)
(* struct RsCodegenResult and enum Use.                                    *)
(***************************************************************************)
RsCodegenResult_default ==
    [extern_c_mod_items    |-> <<>>,
     extern_rust_mod_items |-> <<>>,
     bridge_items          |-> <<>>,
     global_items          |-> <<>>,
     bindgen_mod_items     |-> <<>>,
     impl_entry            |-> None,
     materializations      |-> <<>>]

UsedFromCxxBridge == [use |-> "UsedFromCxxBridge"]

UsedFromCxxBridgeWithAlias(alias) == [use |-> "UsedFromCxxBridgeWithAlias", as |-> alias]

UsedFromBindgen == [use |-> "UsedFromBindgen"]

SpecificNameFromBindgen(id) == [use |-> "SpecificNameFromBindgen", id |-> id]

Custom(item) == [use |-> "Custom", item |-> item]

(***************************************************************************)
(* Collaborators that live outside codegen_rs/mod.rs.                      *)
(***************************************************************************)
\* known_types.rs: the names of the types the host language builds in
BuiltInTypeNames == {"u8", "String"}

conflicts_with_built_in_type(qn) == qn.ns = <<>> /\ qn.name \in BuiltInTypeNames

\* impl_item_creator.rs
create_impl_items(id, cfg) == <<[t |-> "impl_ptr", ptr |-> "UniquePtr", id |-> id]>>

\* codegen_cpp/type_to_cpp.rs: the original C++ name of every renamed item
original_name_map_from_apis(apis_) ==
    {[k |-> apis_[i].name, v |-> apis_[i].cpp_name[1]] :
        i \in {j \in 1..Len(apis_) : IsSome(apis_[j].cpp_name)}}

namespaced_name_using_original_name_map(qn, map) ==
    IF IsSome(MapGet(map, qn)) THEN qn.ns \o MapGet(map, qn)[1] ELSE qn.ns \o <<qn.name>>

\* doc_attr.rs
get_doc_attr(item) == item.doc

\* non_pod_struct.rs: the fields give way to an opaque body, the docs stay
make_non_pod(s) == [s EXCEPT !.body = "opaque"]

new_non_pod_struct(id) == [t |-> "struct", id |-> id, doc |-> None, body |-> "opaque"]

\* api.rs: Api::needs_cpp_codegen
needs_cpp_codegen(api) ==
    \/ api.api \in {"StringConstructor", "Subclass", "RustSubclassFn"}
    \/ api.api = "Function" /\ api.cpp_wrapper

\* fun_codegen.rs: a free function is declared in the bridge and re-exported;
\* a method is declared in the bridge and adds one entry to its type's impl block
gen_function(ns, api) ==
    [RsCodegenResult_default EXCEPT
        !.extern_c_mod_items = <<[t |-> "foreign_fn", id |-> api.name.name, sig |-> api.params]>>,
        !.impl_entry = IF api.fnkind = "Method"
                       THEN Some([ty |-> api.receiver.name,
                                  item |-> [t |-> "impl_fn", id |-> api.name.name,
                                            doc |-> None, sig |-> api.params]])
                       ELSE None,
        !.materializations = IF api.fnkind = "Method" THEN <<>> ELSE <<UsedFromCxxBridge>>]

(***************************************************************************)
(* get_string_items and the simple emitters.                               *)
(***************************************************************************)
get_string_items ==
    <<[t |-> "trait", id |-> "ToCppString", supertrait |-> None,
       items |-> <<[t |-> "trait_fn", id |-> "into_cpp", unsafety |-> FALSE,
                    sig |-> <<[name |-> "self", pat |-> "Receiver", ty |-> <<"self">>]>>,
                    ret |-> <<"cxx", "UniquePtr<cxx::CxxString>">>, default |-> None]>>],
      [t |-> "impl_trait", trait |-> <<"ToCppString">>, for |-> "&str", items |-> <<>>],
      [t |-> "impl_trait", trait |-> <<"ToCppString">>, for |-> "String", items |-> <<>>],
      [t |-> "impl_trait", trait |-> <<"ToCppString">>, for |-> "&String", items |-> <<>>],
      [t |-> "impl_trait", trait |-> <<"ToCppString">>, for |-> "cxx::UniquePtr<cxx::CxxString>", items |-> <<>>]>>

\* generate_extern_type_impl that takes every type for an opaque one
generate_extern_type_impl_opaque(slf, type_kind, tyname) ==
    <<[t       |-> "impl_ExternType",
       path    |-> get_bindgen_path_idents(tyname),
       type_id |-> namespaced_name_using_original_name_map(tyname, slf.original_name_map),
       kind    |-> "Opaque"]>>

\* generate_extern_type_impl that takes every type for a trivial one
generate_extern_type_impl_trivial(slf, type_kind, tyname) ==
    <<[t       |-> "impl_ExternType",
       path    |-> get_bindgen_path_idents(tyname),
       type_id |-> namespaced_name_using_original_name_map(tyname, slf.original_name_map),
       kind    |-> "Trivial"]>>

generate_extern_type_impl(slf, type_kind, tyname) ==
    <<[t       |-> "impl_ExternType",
       path    |-> get_bindgen_path_idents(tyname),
       type_id |-> namespaced_name_using_original_name_map(tyname, slf.original_name_map),
       kind    |-> IF type_kind = "Pod" THEN "Trivial" ELSE "Opaque"]>>

generate_cxxbridge_type(slf, name, references_bindgen, doc_attr) ==
    LET ns  == name.ns
        id  == get_final_ident(name)
        hit == MapGet(slf.original_name_map, name)
        cpp_name == new_from_cpp_name(hit[1])
    IN  [t          |-> "cxx_type",
         id         |-> id,
         namespace  |-> IF IsSome(hit) THEN ns \o cpp_name.ns ELSE ns,
         cxx_name   |-> IF IsSome(hit) THEN Some(cpp_name.name) ELSE None,
         doc        |-> doc_attr,
         definition |-> IF references_bindgen
                        THEN <<"super", "bindgen", "root">> \o ns \o <<id>>
                        ELSE <<>>]

(***************************************************************************)
(* Types: generate_type and add_superclass_stuff_to_type.                  *)
(***************************************************************************)
\* the names of the parameters after the first that are plain identifiers
args_from_sig(params) ==
    LET rest == SubSeq(params, 2, Len(params))
        kept == SelectSeq(rest, LAMBDA fnarg : fnarg.pat = "Ident")
    IN  [i \in 1..Len(kept) |-> kept[i].name]

\* the receiver that replaces the first parameter of a superclass method
self_param(receiver_mutability) ==
    [name |-> "self", pat |-> "Receiver",
     ty   |-> IF receiver_mutability = "Const" THEN <<"&self">> ELSE <<"&mut self">>]

\* the closure of lines 874-895: the pair (a, b) of trait items of one method
superclass_trait_items(method) ==
    LET super_id == method.name \o "_super"
        params   == [method.params EXCEPT ![1] = self_param(method.receiver_mutability)]
    IN  [a |-> [t |-> "trait_fn", id |-> super_id, unsafety |-> method.requires_unsafe,
                sig |-> params, ret |-> method.ret_type, default |-> None],
         b |-> [t |-> "trait_fn", id |-> method.name, unsafety |-> method.requires_unsafe,
                sig |-> params, ret |-> method.ret_type,
                default |-> Some([call |-> super_id, args |-> args_from_sig(method.params)])]]

\* add_superclass_stuff_to_type that adds nothing for an empty list of methods
add_superclass_stuff_to_type_unless_empty(name, bindgen_mod_items, materializations, methods) ==
    IF IF IsSome(methods) THEN methods[1] # <<>> ELSE FALSE
    THEN LET supers == [i \in 1..Len(methods[1]) |-> superclass_trait_items(methods[1][i]).a]
             mains  == [i \in 1..Len(methods[1]) |-> superclass_trait_items(methods[1][i]).b]
             supers_name  == get_final_ident(get_supers_trait_name(name))
             methods_name == get_final_ident(get_methods_trait_name(name))
         IN  [bindgen_mod_items |->
                 bindgen_mod_items \o
                 <<[t |-> "trait", id |-> supers_name, supertrait |-> None, items |-> supers],
                   [t |-> "trait", id |-> methods_name, supertrait |-> Some(supers_name),
                    items |-> mains]>>,
              materializations |->
                 materializations \o
                 <<SpecificNameFromBindgen(methods_name), SpecificNameFromBindgen(supers_name)>>]
    ELSE [bindgen_mod_items |-> bindgen_mod_items, materializations |-> materializations]

\* returns the two vectors the function extends
add_superclass_stuff_to_type(name, bindgen_mod_items, materializations, methods) ==
    IF IsSome(methods)
    THEN LET supers == [i \in 1..Len(methods[1]) |-> superclass_trait_items(methods[1][i]).a]
             mains  == [i \in 1..Len(methods[1]) |-> superclass_trait_items(methods[1][i]).b]
             supers_name  == get_final_ident(get_supers_trait_name(name))
             methods_name == get_final_ident(get_methods_trait_name(name))
         IN  [bindgen_mod_items |->
                 bindgen_mod_items \o
                 <<[t |-> "trait", id |-> supers_name, supertrait |-> None, items |-> supers],
                   [t |-> "trait", id |-> methods_name, supertrait |-> Some(supers_name),
                    items |-> mains]>>,
              materializations |->
                 materializations \o
                 <<SpecificNameFromBindgen(methods_name), SpecificNameFromBindgen(supers_name)>>]
    ELSE [bindgen_mod_items |-> bindgen_mod_items, materializations |-> materializations]

\* orig_item is what item_creator() returns: an Option of [item, doc]
generate_type(slf, name, id, type_kind, orig_item, associated_methods) ==
    LET stuff == add_superclass_stuff_to_type(name, <<>>, <<UsedFromCxxBridge>>,
                                              MapGet(associated_methods, name))
    IN  IF type_kind \in {"Pod", "NonPodNested"}
        THEN LET item0 == orig_item[1].item
                 item  == IF type_kind = "NonPodNested"
                          THEN IF item0.t = "struct" THEN make_non_pod(item0)
                               ELSE new_non_pod_struct(id)
                          ELSE item0
             IN  [global_items          |-> generate_extern_type_impl(slf, type_kind, name),
                  impl_entry            |-> None,
                  bridge_items          |-> create_impl_items(id, slf.config),
                  extern_c_mod_items    |-> <<generate_cxxbridge_type(slf, name, TRUE, None)>>,
                  bindgen_mod_items     |-> Append(stuff.bindgen_mod_items, item),
                  materializations      |-> stuff.materializations,
                  extern_rust_mod_items |-> <<>>]
        ELSE LET doc_attr == IF IsSome(orig_item) THEN orig_item[1].doc ELSE None
             IN  [extern_c_mod_items    |-> <<generate_cxxbridge_type(slf, name, FALSE, doc_attr)>>,
                  extern_rust_mod_items |-> <<>>,
                  bridge_items          |-> <<>>,
                  global_items          |-> <<>>,
                  bindgen_mod_items     |-> Append(stuff.bindgen_mod_items,
                                                   [t |-> "use", vis |-> "pub",
                                                    path |-> <<"cxxbridge", id>>, alias |-> None]),
                  impl_entry            |-> None,
                  materializations      |-> stuff.materializations]

(***************************************************************************)
(* Errors: generate_error_entry and sanitize_error_ident.                  *)
(***************************************************************************)
\* sanitize_error_ident that finds no identifier in need of scrubbing
sanitize_error_ident_never(id) == None

sanitize_error_ident(id) ==
    LET qn == QualifiedName_new(<<>>, id)
    IN  IF conflicts_with_built_in_type(qn)
        THEN Some(qn.name \o "_autocxx_error")
        ELSE None

unwrap_or(opt, dflt) == IF IsSome(opt) THEN opt[1] ELSE dflt

\* the placeholder without its #[doc] attribute
error_placeholder_undocumented(err, id) ==
    [t |-> "struct", id |-> id, doc |-> None, body |-> "unit"]

\* #[doc = #err] pub struct #id; (lines 928-931 and 962-965)
error_placeholder(err, id) == [t |-> "struct", id |-> id, doc |-> Some(err), body |-> "unit"]

\* generate_error_entry that puts every failed method into the impl block of
\* its type, whatever the type is called
generate_error_entry_always_impl(err0, ctx) ==
    LET err == "autocxx bindings couldn't be generated: " \o err0
        pair ==
            IF ctx.ctx = "Item"
            THEN [impl_entry |-> None,
                  materialization |->
                      Some(Custom(error_placeholder(err, unwrap_or(sanitize_error_ident(ctx.id),
                                                                   ctx.id))))]
            ELSE [impl_entry |->
                      Some([item |-> [t |-> "impl_fn",
                                      id |-> unwrap_or(sanitize_error_ident(ctx.method), ctx.method),
                                      doc |-> Some(err),
                                      sig |-> <<[name |-> "_uhoh", pat |-> "Ident",
                                                 ty |-> <<"autocxx", "BindingGenerationFailure">>]>>],
                            ty |-> ctx.self_ty]),
                  materialization |-> None]
    IN  [global_items          |-> <<>>,
         impl_entry            |-> pair.impl_entry,
         bridge_items          |-> <<>>,
         extern_c_mod_items    |-> <<>>,
         bindgen_mod_items     |-> <<>>,
         materializations      |-> pair.materialization,
         extern_rust_mod_items |-> <<>>]

generate_error_entry(err0, ctx) ==
    LET err == "autocxx bindings couldn't be generated: " \o err0
        placeholder(id) == error_placeholder(err, id)
        pair ==
            IF ctx.ctx = "Item"
            THEN [impl_entry |-> None,
                  materialization |->
                      Some(Custom(placeholder(unwrap_or(sanitize_error_ident(ctx.id), ctx.id))))]
            ELSE IF ~IsSome(sanitize_error_ident(ctx.self_ty))
            THEN [impl_entry |->
                      Some([item |-> [t |-> "impl_fn",
                                      id |-> unwrap_or(sanitize_error_ident(ctx.method), ctx.method),
                                      doc |-> Some(err),
                                      sig |-> <<[name |-> "_uhoh", pat |-> "Ident",
                                                 ty |-> <<"autocxx", "BindingGenerationFailure">>]>>],
                            ty |-> ctx.self_ty]),
                  materialization |-> None]
            ELSE [impl_entry |-> None,
                  materialization |->
                      Some(Custom(placeholder(ctx.self_ty \o "_method_" \o ctx.method)))]
    IN  [global_items          |-> <<>>,
         impl_entry            |-> pair.impl_entry,
         bridge_items          |-> <<>>,
         extern_c_mod_items    |-> <<>>,
         bindgen_mod_items     |-> <<>>,
         materializations      |-> pair.materialization,
         extern_rust_mod_items |-> <<>>]

(***************************************************************************)
(* Subclasses: generate_subclass and generate_subclass_fn.                 *)
(***************************************************************************)
\* unqualify.rs: a type path keeps its last segment only
unqualify_type(ty) == IF ty = <<>> THEN <<>> ELSE <<ty[Len(ty)]>>

unqualify_params(params) == [i \in 1..Len(params) |-> [params[i] EXCEPT !.ty = unqualify_type(@)]]

unqualify_ret_type(ret) == unqualify_type(ret)

\* subclass_super_method when the receiver is not skipped among the names
subclass_super_method_with_receiver(m) ==
    LET supern          == m.name \o "_super"
        cpp_method_name == m.name \o "_super"
        peer_fn         == IF m.receiver_mutability = "Const" THEN "peer" ELSE "peer_mut"
        params          == [m.params EXCEPT ![1] = self_param(m.receiver_mutability)]
    IN  [t |-> "impl_fn", id |-> supern, doc |-> None, sig |-> params,
         unsafety |-> m.requires_unsafe, ret |-> m.ret_type,
         calls |-> <<peer_fn, cpp_method_name>>,
         args |-> m.param_names]

\* the closure of lines 637-656: the x_super method of the subclass
subclass_super_method(m) ==
    LET supern          == m.name \o "_super"
        cpp_method_name == m.name \o "_super"
        peer_fn         == IF m.receiver_mutability = "Const" THEN "peer" ELSE "peer_mut"
        params          == [m.params EXCEPT ![1] = self_param(m.receiver_mutability)]
    IN  [t |-> "impl_fn", id |-> supern, doc |-> None, sig |-> params,
         unsafety |-> m.requires_unsafe, ret |-> m.ret_type,
         calls |-> <<peer_fn, cpp_method_name>>,
         args |-> SubSeq(m.param_names, 2, Len(m.param_names))]

\* generate_subclass that never pushes the CppPeerConstructor impl
peer_constructor_items_never(generate_peer_constructor, id, cpp_id, cpp_path) == <<>>

\* generate_subclass that pushes the CppPeerConstructor impl for every subclass
peer_constructor_items_always(generate_peer_constructor, id, cpp_id, cpp_path) ==
    <<[t |-> "impl_trait",
       trait |-> <<"autocxx", "subclass", "CppPeerConstructor", cpp_id>>,
       for |-> id, items |-> <<>>]>>

\* lines 665-673: if generate_peer_constructor, the impl of CppPeerConstructor
peer_constructor_items(generate_peer_constructor, id, cpp_id, cpp_path) ==
    IF generate_peer_constructor
    THEN <<[t |-> "impl_trait",
            trait |-> <<"autocxx", "subclass", "CppPeerConstructor", cpp_id>>,
            for |-> id,
            items |-> <<[t |-> "impl_fn", id |-> "make_peer", doc |-> None,
                         sig |-> <<[name |-> "self", pat |-> "Receiver", ty |-> <<"&mut self">>],
                                   [name |-> "peer_holder", pat |-> "Ident",
                                    ty |-> <<"autocxx", "subclass",
                                             "CppSubclassRustPeerHolder<Self>">>]>>,
                         unsafety |-> FALSE, ret |-> cpp_path,
                         calls |-> <<cpp_id, "make_unique">>,
                         args |-> <<"peer_holder">>]>>]>>
    ELSE <<>>

generate_subclass(slf, sub, superclass, methods, generate_peer_constructor) ==
    LET super_name          == superclass.name
        super_path          == to_type_path(superclass)
        super_cxxxbridge_id == get_final_ident(superclass)
        id       == SubclassName_id(sub)
        holder   == SubclassName_holder(sub)
        full_cpp == SubclassName_cpp(sub)
        cpp_path == to_type_path(full_cpp)
        cpp_id   == get_final_ident(full_cpp)
        relinquish_ownership_call == cpp_remove_ownership(sub)
        as_id     == "As_" \o super_name
        as_mut_id == "As_" \o super_name \o "_mut"
        remove    == remove_ownership(sub)
        supers    == to_type_path(get_supers_trait_name(superclass))
        self_ref  == [name |-> "self", pat |-> "Receiver", ty |-> <<"&self">>]
        self_mut  == [name |-> "self", pat |-> "Receiver", ty |-> <<"&mut self">>]
    IN  [extern_c_mod_items |->
            <<generate_cxxbridge_type(slf, full_cpp, FALSE, None),
              [t |-> "foreign_fn", id |-> relinquish_ownership_call,
               sig |-> <<[name |-> "self", pat |-> "Receiver", ty |-> <<"&" \o cpp_id>>]>>],
              [t |-> "foreign_fn", id |-> as_id,
               sig |-> <<[name |-> "self", pat |-> "Receiver", ty |-> <<"&" \o cpp_id>>]>>],
              [t |-> "foreign_fn", id |-> as_mut_id,
               sig |-> <<[name |-> "self", pat |-> "Receiver",
                          ty |-> <<"Pin<&mut " \o cpp_id \o ">">>]>>]>>,
         bridge_items |-> create_impl_items(cpp_id, slf.config),
         bindgen_mod_items |->
            <<[t |-> "use", vis |-> "pub", path |-> <<"cxxbridge", cpp_id>>, alias |-> None],
              [t |-> "struct", id |-> holder, doc |-> None,
               body |-> "autocxx::subclass::CppSubclassRustPeerHolder<" \o id \o ">"],
              [t |-> "impl_trait", trait |-> <<"autocxx", "subclass", "CppSubclassCppPeer">>,
               for |-> cpp_id,
               items |-> <<[t |-> "impl_fn", id |-> "relinquish_ownership", doc |-> None,
                            sig |-> <<self_ref>>, unsafety |-> FALSE, ret |-> <<>>,
                            calls |-> <<relinquish_ownership_call>>, args |-> <<>>]>>]>>
            \o (IF IsSome(methods)
                THEN <<[t |-> "impl_trait", trait |-> supers, for |-> id,
                        items |-> [i \in 1..Len(methods[1]) |->
                                      subclass_super_method(methods[1][i])]]>>
                ELSE <<>>)
            \o peer_constructor_items(generate_peer_constructor, id, cpp_id, cpp_path)
            \o <<[t |-> "impl_trait", trait |-> <<"AsRef">> \o super_path, for |-> id,
                  items |-> <<[t |-> "impl_fn", id |-> "as_ref", doc |-> None,
                               sig |-> <<self_ref>>, unsafety |-> FALSE,
                               ret |-> <<"cxxbridge", super_cxxxbridge_id>>,
                               calls |-> <<"peer", as_id>>, args |-> <<>>]>>],
                 [t |-> "impl", ty |-> id,
                  items |-> <<[t |-> "impl_fn", id |-> "pin_mut", doc |-> None,
                               sig |-> <<self_mut>>, unsafety |-> FALSE,
                               ret |-> <<"cxxbridge", super_cxxxbridge_id>>,
                               calls |-> <<"peer_mut", as_mut_id>>, args |-> <<>>]>>]>>,
         materializations |->
            <<Custom([t |-> "use", vis |-> "pub", path |-> <<"cxxbridge", cpp_id>>,
                      alias |-> None])>>,
         global_items |->
            <<[t |-> "use", vis |-> "pub", path |-> <<"bindgen", "root", holder>>,
               alias |-> None],
              [t |-> "fn", id |-> remove, unsafety |-> FALSE,
               sig |-> <<[name |-> "me", pat |-> "Ident", ty |-> <<"Box<" \o holder \o ">">>]>>,
               ret |-> <<"Box<" \o holder \o ">">>,
               steps |-> <<[op |-> "relinquish_ownership", msg |-> None,
                            callee |-> <<holder>>, args |-> <<"me">>]>>]>>,
         impl_entry |-> None,
         extern_rust_mod_items |->
            <<[t |-> "foreign_type", id |-> holder],
              [t |-> "foreign_fn", id |-> remove,
               sig |-> <<[name |-> "me", pat |-> "Ident",
                          ty |-> <<"Box<" \o holder \o ">">>]>>]>>]

\* borrow_idents that asks for a shared borrow whatever the receiver is
borrow_idents_always_shared(receiver_mutability) ==
    [deref_ty |-> "Deref", deref_call |-> "deref", borrow |-> "try_borrow", mut_token |-> FALSE]

\* the match of lines 747-755: (deref_ty, deref_call, borrow, mut_token)
borrow_idents(receiver_mutability) ==
    IF receiver_mutability = "Const"
    THEN [deref_ty |-> "Deref", deref_call |-> "deref", borrow |-> "try_borrow",
          mut_token |-> FALSE]
    ELSE [deref_ty |-> "DerefMut", deref_call |-> "deref_mut", borrow |-> "try_borrow_mut",
          mut_token |-> TRUE]

\* line 759
destroy_panic_msg(method_name, subclass, superclass_id) ==
    "Rust subclass API (method " \o method_name \o " of subclass "
    \o QualifiedName_to_string(subclass) \o " of superclass " \o superclass_id
    \o ") called after subclass destroyed"

\* line 760
reentrancy_panic_msg(method_name, subclass, superclass_id) ==
    "Rust subclass API (method " \o method_name \o " of subclass "
    \o QualifiedName_to_string(subclass) \o " of superclass " \o superclass_id
    \o ") called whilst subclass already borrowed - likely a re-entrant call"

\* subclass_fn_body with the borrow taken before the holder is looked at
subclass_fn_body_borrow_first(destroy_msg, reentrancy_msg, idents, methods_trait, method_name, args) ==
    <<[op |-> idents.borrow, msg |-> Some(reentrancy_msg), callee |-> <<>>, args |-> <<>>],
      [op |-> "get", msg |-> Some(destroy_msg), callee |-> <<>>, args |-> <<>>],
      [op |-> idents.deref_call, msg |-> None, callee |-> <<"std", "ops", idents.deref_ty>>,
       args |-> <<>>],
      [op |-> "call", msg |-> None, callee |-> Append(methods_trait, method_name),
       args |-> args]>>

\* subclass_fn_body with the result of the borrow not checked by expect()
subclass_fn_body_unchecked_borrow(destroy_msg, reentrancy_msg, idents, methods_trait, method_name, args) ==
    <<[op |-> "get", msg |-> Some(destroy_msg), callee |-> <<>>, args |-> <<>>],
      [op |-> idents.borrow, msg |-> None, callee |-> <<>>, args |-> <<>>],
      [op |-> idents.deref_call, msg |-> None, callee |-> <<"std", "ops", idents.deref_ty>>,
       args |-> <<>>],
      [op |-> "call", msg |-> None, callee |-> Append(methods_trait, method_name),
       args |-> args]>>

\* the statements of the body quoted at lines 767-779, in program order
subclass_fn_body(destroy_msg, reentrancy_msg, idents, methods_trait, method_name, args) ==
    <<[op |-> "get", msg |-> Some(destroy_msg), callee |-> <<>>, args |-> <<>>],
      [op |-> idents.borrow, msg |-> Some(reentrancy_msg), callee |-> <<>>, args |-> <<>>],
      [op |-> idents.deref_call, msg |-> None, callee |-> <<"std", "ops", idents.deref_ty>>,
       args |-> <<>>],
      [op |-> "call", msg |-> None, callee |-> Append(methods_trait, method_name),
       args |-> args]>>

generate_subclass_fn(api_name, details, subclass) ==
    LET params0 == details.params
        ret0    == details.ret
        params  == unqualify_params(params0)
        ret     == unqualify_ret_type(ret0)
        method_name    == details.method_name
        cxxbridge_decl == [t |-> "foreign_fn", id |-> api_name, sig |-> params,
                           unsafety |-> details.requires_unsafe, ret |-> ret]
        args           == args_from_sig(cxxbridge_decl.sig)
        superclass_id  == get_final_ident(details.superclass)
        methods_trait  == to_type_path(get_methods_trait_name(details.superclass))
        idents         == borrow_idents(details.receiver_mutability)
        destroy_msg    == destroy_panic_msg(method_name, subclass, superclass_id)
        reentrancy_msg == reentrancy_panic_msg(method_name, subclass, superclass_id)
    IN  [extern_c_mod_items |-> <<>>,
         bridge_items       |-> <<>>,
         bindgen_mod_items  |-> <<>>,
         materializations   |-> <<>>,
         global_items |->
            <<[t |-> "fn", id |-> api_name, unsafety |-> details.requires_unsafe,
               sig |-> params0, ret |-> ret0,
               steps |-> subclass_fn_body(destroy_msg, reentrancy_msg, idents,
                                          methods_trait, method_name, args)]>>,
         impl_entry |-> None,
         extern_rust_mod_items |-> <<cxxbridge_decl>>]

(***************************************************************************)
(* generate_rs_for_api: one bundle per API.                                *)
(***************************************************************************)
pub_use(path) == [t |-> "use", vis |-> "pub", path |-> path, alias |-> None]

generate_rs_for_api(slf, api, associated_methods, trivially_constructed) ==
    LET name == api.name
        id   == get_final_ident(name)
    IN  CASE api.api = "StringConstructor" ->
                [RsCodegenResult_default EXCEPT
                    !.extern_c_mod_items =
                        <<[t |-> "foreign_fn", id |-> slf.config.makestring_name,
                           sig |-> <<[name |-> "str_", pat |-> "Ident", ty |-> <<"&str">>]>>]>>,
                    !.global_items = get_string_items,
                    !.materializations = <<UsedFromCxxBridgeWithAlias("make_string")>>]
          [] api.api = "Function" -> gen_function(name.ns, api)
          [] api.api = "Const" ->
                [RsCodegenResult_default EXCEPT
                    !.bindgen_mod_items = <<api.const_item>>,
                    !.materializations = <<UsedFromBindgen>>]
          [] api.api = "Typedef" ->
                [RsCodegenResult_default EXCEPT
                    !.bindgen_mod_items = <<api.item>>,
                    !.materializations = <<UsedFromBindgen>>]
          [] api.api = "Struct" ->
                generate_type(slf, name, id, api.kind,
                              Some([item |-> api.item, doc |-> get_doc_attr(api.item)]),
                              associated_methods)
          [] api.api = "Enum" ->
                generate_type(slf, name, id, "Pod",
                              Some([item |-> api.item, doc |-> get_doc_attr(api.item)]),
                              associated_methods)
          [] api.api \in {"ForwardDeclaration", "ConcreteType"} ->
                generate_type(slf, name, id, "Abstract", None, associated_methods)
          [] api.api = "CType" ->
                [RsCodegenResult_default EXCEPT
                    !.extern_c_mod_items =
                        <<[t |-> "cxx_type", id |-> id, namespace |-> <<>>, cxx_name |-> None,
                           doc |-> None, definition |-> <<"autocxx", id>>]>>]
          [] api.api = "RustType" ->
                [RsCodegenResult_default EXCEPT
                    !.global_items = <<[t |-> "use", vis |-> "", path |-> <<"super">> \o api.path,
                                        alias |-> None]>>,
                    !.extern_rust_mod_items = <<[t |-> "foreign_type", id |-> id]>>]
          [] api.api = "RustFn" ->
                [RsCodegenResult_default EXCEPT
                    !.global_items = <<[t |-> "use", vis |-> "", path |-> <<"super">> \o api.path,
                                        alias |-> None]>>,
                    !.extern_rust_mod_items = <<[t |-> "foreign_fn", id |-> id,
                                                 sig |-> api.sig]>>]
          [] api.api = "RustSubclassFn" ->
                generate_subclass_fn(id, api.details, api.subclass)
          [] api.api = "Subclass" ->
                generate_subclass(slf, name, api.superclass,
                                  MapGet(associated_methods, api.superclass),
                                  name \in trivially_constructed)
          [] api.api = "RustSubclassConstructor" -> RsCodegenResult_default
          [] api.api = "IgnoredItem" -> generate_error_entry(api.err, api.ctx)

(***************************************************************************)
(* namespace_organizer.rs: NamespaceEntries groups the (name, bundle)      *)
(* pairs by namespace.  A node is addressed by its namespace path; its     *)
(* entries keep the input order and its children are ordered by segment.   *)
(***************************************************************************)
IsPrefix(p, ns) == Len(p) <= Len(ns) /\ SubSeq(ns, 1, Len(p)) = p

\* the BTreeMap order of the namespace segments
SegmentOrder == <<"a", "b", "c">>

NamespaceEntries_entries(input, p) == SelectSeq(input, LAMBDA e : e.name.ns = p)

NamespaceEntries_children(input, p) ==
    SelectSeq(SegmentOrder,
              LAMBDA seg : \E i \in 1..Len(input) : IsPrefix(Append(p, seg), input[i].name.ns))

NamespaceEntries_is_empty(input, p) ==
    ~\E i \in 1..Len(input) : IsPrefix(p, input[i].name.ns)

(***************************************************************************)
(* The tree of 'use' statements.                                           *)
(***************************************************************************)
\* find_output_mod_root that takes one step more than the depth
find_output_mod_root_one_more(ns) == [i \in 1..depth(ns) + 1 |-> "super"]

find_output_mod_root(ns) == [i \in 1..depth(ns) |-> "super"]

generate_cxx_use_stmt(name, alias) ==
    [t |-> "use", vis |-> "pub",
     path |-> find_output_mod_root(name.ns) \o <<"cxxbridge">> \o <<get_final_ident(name)>>,
     alias |-> alias]

generate_bindgen_use_stmt(name) ==
    pub_use(find_output_mod_root(name.ns) \o get_bindgen_path_idents(name))

\* the match of lines 351-362
materialize(name, materialization) ==
    CASE materialization.use = "UsedFromCxxBridgeWithAlias" ->
            generate_cxx_use_stmt(name, Some(materialization.as))
      [] materialization.use = "UsedFromCxxBridge" -> generate_cxx_use_stmt(name, None)
      [] materialization.use = "UsedFromBindgen" -> generate_bindgen_use_stmt(name)
      [] materialization.use = "SpecificNameFromBindgen" ->
            generate_bindgen_use_stmt(QualifiedName_new(name.ns, materialization.id))
      [] materialization.use = "Custom" -> materialization.item

\* append_child_use_namespace that walks the entries of a namespace backwards
RECURSIVE append_child_use_namespace_reversed(_, _)
append_child_use_namespace_reversed(input, p) ==
    LET entries  == NamespaceEntries_entries(input, p)
        children == NamespaceEntries_children(input, p)
        own == Flatten([i \in 1..Len(entries) |->
                   [j \in 1..Len(entries[Len(entries) + 1 - i].gen.materializations) |->
                       materialize(entries[Len(entries) + 1 - i].name,
                                   entries[Len(entries) + 1 - i].gen.materializations[j])]])
        kept == SelectSeq(children,
                          LAMBDA c : ~NamespaceEntries_is_empty(input, Append(p, c)))
    IN  own \o [i \in 1..Len(kept) |->
                   [t |-> "mod", vis |-> "pub", id |-> kept[i],
                    items |-> append_child_use_namespace_reversed(input, Append(p, kept[i]))]]

RECURSIVE append_child_use_namespace(_, _)
append_child_use_namespace(input, p) ==
    LET entries  == NamespaceEntries_entries(input, p)
        children == NamespaceEntries_children(input, p)
        own == Flatten([i \in 1..Len(entries) |->
                   [j \in 1..Len(entries[i].gen.materializations) |->
                       materialize(entries[i].name, entries[i].gen.materializations[j])]])
        kept == SelectSeq(children,
                          LAMBDA c : ~NamespaceEntries_is_empty(input, Append(p, c)))
    IN  own \o [i \in 1..Len(kept) |->
                   [t |-> "mod", vis |-> "pub", id |-> kept[i],
                    items |-> append_child_use_namespace(input, Append(p, kept[i]))]]

\* generate_final_use_statements that renders every entry at the root
generate_final_use_statements_flat(input_items) ==
    Flatten([i \in 1..Len(input_items) |->
                [j \in 1..Len(input_items[i].gen.materializations) |->
                    materialize(input_items[i].name, input_items[i].gen.materializations[j])]])

generate_final_use_statements(input_items) == append_child_use_namespace(input_items, <<>>)

(***************************************************************************)
(* The tree of bindgen mods.                                               *)
(***************************************************************************)
priv_use(path) == [t |-> "use", vis |-> "", path |-> path, alias |-> None]

supers(n) == [i \in 1..n |-> "super"]

\* append_uses_for_ns that reaches for root through as many steps as for cxxbridge
append_uses_for_ns_same_steps(slf, ns) ==
    <<priv_use(<<"self">> \o supers(depth(ns) + 2) \o <<"cxxbridge">>)>>
    \o (IF ~slf.config.exclude_utilities
        THEN <<priv_use(<<"self">> \o supers(depth(ns) + 2) \o <<"ToCppString">>)>>
        ELSE <<>>)
    \o <<priv_use(<<"self">> \o supers(depth(ns) + 2) \o <<"root">>)>>

\* the items append_uses_for_ns pushes
append_uses_for_ns(slf, ns) ==
    <<priv_use(<<"self">> \o supers(depth(ns) + 2) \o <<"cxxbridge">>)>>
    \o (IF ~slf.config.exclude_utilities
        THEN <<priv_use(<<"self">> \o supers(depth(ns) + 2) \o <<"ToCppString">>)>>
        ELSE <<>>)
    \o <<priv_use(<<"self">> \o supers(depth(ns) + 1) \o <<"root">>)>>

\* the types that have an impl entry among the entries, and one type's entries
impl_types(entries) ==
    {entries[i].gen.impl_entry[1].ty : i \in {j \in 1..Len(entries) :
                                                IsSome(entries[j].gen.impl_entry)}}

\* impl_entries_of when each entry replaces the vector of its type
impl_entries_of_last_only(entries, ty) ==
    LET having == SelectSeq(entries, LAMBDA e : IsSome(e.gen.impl_entry)
                                                /\ e.gen.impl_entry[1].ty = ty)
    IN  <<having[Len(having)].gen.impl_entry[1].item>>

impl_entries_of(entries, ty) ==
    LET having == SelectSeq(entries, LAMBDA e : IsSome(e.gen.impl_entry)
                                                /\ e.gen.impl_entry[1].ty = ty)
    IN  [i \in 1..Len(having) |-> having[i].gen.impl_entry[1].item]

\* every order in which a HashMap with the keys S may be iterated
Orders(S) == {o \in [1..Cardinality(S) -> S] : \A i, j \in 1..Cardinality(S) :
                                                   i # j => o[i] # o[j]}

\* the namespace paths that are nodes of the tree
Nodes(input) ==
    {<<>>} \cup UNION {{SubSeq(input[i].name.ns, 1, n) : n \in 0..Len(input[i].name.ns)} :
                          i \in 1..Len(input)}

\* one iteration order for the HashMap impl_entries_by_type of each node
IterationOrders(input) ==
    {f \in [Nodes(input) -> UNION {Orders(impl_types(NamespaceEntries_entries(input, p))) :
                                       p \in Nodes(input)}] :
        \A p \in Nodes(input) :
            f[p] \in Orders(impl_types(NamespaceEntries_entries(input, p)))}

RECURSIVE append_child_bindgen_namespace(_, _, _, _)
append_child_bindgen_namespace(slf, input, ns, order) ==
    LET entries  == NamespaceEntries_entries(input, ns)
        children == NamespaceEntries_children(input, ns)
        own   == Flatten([i \in 1..Len(entries) |-> entries[i].gen.bindgen_mod_items])
        impls == [i \in 1..Len(order[ns]) |->
                     [t |-> "impl", ty |-> order[ns][i],
                      items |-> impl_entries_of(entries, order[ns][i])]]
        inner(c) == append_child_bindgen_namespace(slf, input, Append(ns, c), order)
        kept  == SelectSeq(children, LAMBDA c : inner(c) # <<>>)
    IN  own \o impls \o
        [i \in 1..Len(kept) |->
            [t |-> "mod", vis |-> "pub", id |-> kept[i],
             items |-> inner(kept[i]) \o append_uses_for_ns(slf, Append(ns, kept[i]))]]

generate_final_bindgen_mods(slf, input_items, order) ==
    append_child_bindgen_namespace(slf, input_items, <<>>, order)
    \o append_uses_for_ns(slf, <<>>)

(***************************************************************************)
(* The flat part of rs_codegen.                                            *)
(***************************************************************************)
build_include_foreign_items(slf, has_additional_cpp_needs) ==
    LET chained == slf.include_list \o
                   (IF has_additional_cpp_needs
                    THEN <<"autocxxgen_" \o slf.config.mod_name \o ".h">>
                    ELSE <<>>)
    IN  [i \in 1..Len(chained) |-> [t |-> "foreign_macro", id |-> chained[i]]]

make_foreign_mod_unsafe(ifm) == [ifm EXCEPT !.unsafety = TRUE]

\* assemble when only the bridge items of the first result are taken
assemble_bridge_items_of_first(slf, apis_, res, use_stmts, bindgen_root) ==
    LET field(f(_)) == Flatten([i \in 1..Len(res) |-> f(res[i].gen)])
        ec(g) == g.extern_c_mod_items
        er(g) == g.extern_rust_mod_items
        gl(g) == g.global_items
        br(g) == g.bridge_items
        has_additional_cpp_needs == \E i \in 1..Len(apis_) : needs_cpp_codegen(apis_[i])
        extern_c_mod ==
            [t |-> "foreign_mod", abi |-> "C++", unsafety |-> FALSE,
             items |-> field(ec) \o build_include_foreign_items(slf, has_additional_cpp_needs)]
        extern_rust_mod ==
            [t |-> "foreign_mod", abi |-> "Rust", unsafety |-> FALSE, items |-> field(er)]
        bridge_items == (IF res = <<>> THEN <<>> ELSE br(res[1].gen)) \o <<make_foreign_mod_unsafe(extern_c_mod), extern_rust_mod>>
    IN  field(gl)
        \o (IF bindgen_root # <<>>
            THEN <<[t |-> "mod", vis |-> "", id |-> "bindgen",
                    items |-> <<[t |-> "mod", vis |-> "pub(super)", id |-> "root",
                                 items |-> bindgen_root]>>]>>
            ELSE <<>>)
        \o <<[t |-> "mod", vis |-> "", id |-> "cxxbridge", items |-> bridge_items]>>
        \o <<priv_use(<<"bindgen", "root">>)>>
        \o use_stmts

\* lines 192-256: what rs_codegen returns
assemble(slf, apis_, res, use_stmts, bindgen_root) ==
    LET field(f(_)) == Flatten([i \in 1..Len(res) |-> f(res[i].gen)])
        ec(g) == g.extern_c_mod_items
        er(g) == g.extern_rust_mod_items
        gl(g) == g.global_items
        br(g) == g.bridge_items
        has_additional_cpp_needs == \E i \in 1..Len(apis_) : needs_cpp_codegen(apis_[i])
        extern_c_mod ==
            [t |-> "foreign_mod", abi |-> "C++", unsafety |-> FALSE,
             items |-> field(ec) \o build_include_foreign_items(slf, has_additional_cpp_needs)]
        extern_rust_mod ==
            [t |-> "foreign_mod", abi |-> "Rust", unsafety |-> FALSE, items |-> field(er)]
        bridge_items == field(br) \o <<make_foreign_mod_unsafe(extern_c_mod), extern_rust_mod>>
    IN  field(gl)
        \o (IF bindgen_root # <<>>
            THEN <<[t |-> "mod", vis |-> "", id |-> "bindgen",
                    items |-> <<[t |-> "mod", vis |-> "pub(super)", id |-> "root",
                                 items |-> bindgen_root]>>]>>
            ELSE <<>>)
        \o <<[t |-> "mod", vis |-> "", id |-> "cxxbridge", items |-> bridge_items]>>
        \o <<priv_use(<<"bindgen", "root">>)>>
        \o use_stmts

(***************************************************************************)
(* The inputs: API items as the analysis phases hand them over.            *)
(***************************************************************************)
Api(kind, ns, id) == [api |-> kind, name |-> QualifiedName_new(ns, id), cpp_name |-> None]

Extend(r, more) ==
    [f \in DOMAIN r \cup DOMAIN more |-> IF f \in DOMAIN more THEN more[f] ELSE r[f]]

FnArgOf(name, ty) == [name |-> name, pat |-> "Ident", ty |-> ty]

StructItem(id, doc) == [t |-> "struct", id |-> id, doc |-> doc, body |-> "fields"]

ApiStruct(ns, id, kind, doc) ==
    Extend(Api("Struct", ns, id), [item |-> StructItem(id, doc), kind |-> kind])

ApiEnum(ns, id) ==
    Extend(Api("Enum", ns, id), [item |-> [t |-> "enum", id |-> id, doc |-> None]])

ApiConst(ns, id) ==
    Extend(Api("Const", ns, id), [const_item |-> [t |-> "const", id |-> id]])

ApiTypedef(ns, id) ==
    Extend(Api("Typedef", ns, id), [item |-> [t |-> "type", id |-> id]])

ApiIgnoredItem(ns, id, err, ctx) ==
    Extend(Api("IgnoredItem", ns, id), [err |-> err, ctx |-> ctx])

ItemCtx(id) == [ctx |-> "Item", id |-> id]

MethodCtx(self_ty, method) == [ctx |-> "Method", self_ty |-> self_ty, method |-> method]

\* a method of `receiver` with the parameters `names` after the receiver
ApiMethod(ns, id, receiver, method_kind, mutability, names, unsafe) ==
    LET this == FnArgOf("autocxx_gen_this", <<"root", receiver.name>>)
        rest == [i \in 1..Len(names) |-> FnArgOf(names[i], <<"root", "Arg">>)]
    IN  Extend(Api("Function", ns, id),
               [fnkind |-> "Method", receiver |-> receiver, method_kind |-> method_kind,
                receiver_mutability |-> mutability,
                params |-> <<this>> \o rest,
                ret_type |-> <<>>,
                param_details |-> <<[name |-> "autocxx_gen_this", requires_unsafe |-> FALSE]>>
                                  \o [i \in 1..Len(names) |->
                                         [name |-> names[i], requires_unsafe |-> unsafe]],
                cpp_wrapper |-> FALSE])

ApiFunction(ns, id, names) ==
    Extend(Api("Function", ns, id),
           [fnkind |-> "Function", receiver |-> QualifiedName_new(<<>>, ""),
            method_kind |-> "", receiver_mutability |-> "",
            params |-> [i \in 1..Len(names) |-> FnArgOf(names[i], <<"root", "Arg">>)],
            ret_type |-> <<>>,
            param_details |-> [i \in 1..Len(names) |->
                                  [name |-> names[i], requires_unsafe |-> FALSE]],
            cpp_wrapper |-> TRUE])

ApiSubclass(id, superclass) ==
    Extend(Api("Subclass", <<>>, id), [superclass |-> superclass])

ApiRustSubclassConstructor(id, subclass, is_trivial) ==
    Extend(Api("RustSubclassConstructor", <<>>, id),
           [subclass |-> QualifiedName_new(<<>>, subclass), is_trivial |-> is_trivial])

ApiRustSubclassFn(id, subclass, superclass, method_name, mutability, names) ==
    Extend(Api("RustSubclassFn", <<>>, id),
           [subclass |-> QualifiedName_new(<<>>, subclass),
            details |-> [params |-> <<FnArgOf("me", <<"root", subclass \o "Holder">>)>>
                                    \o [i \in 1..Len(names) |->
                                           FnArgOf(names[i], <<"root", "Arg">>)],
                         ret |-> <<>>,
                         method_name |-> method_name,
                         superclass |-> superclass,
                         receiver_mutability |-> mutability,
                         requires_unsafe |-> FALSE]])

Config(superclasses, exclude_utilities) ==
    [superclasses |-> superclasses, exclude_utilities |-> exclude_utilities,
     mod_name |-> "ffi", makestring_name |-> "autocxx_make_string_ffi"]

\* RsCodeGenerator as generate_rs_code builds it (lines 153-158)
Generator(all_apis, cfg) ==
    [include_list      |-> <<"input.h">>,
     original_name_map |-> original_name_map_from_apis(all_apis),
     config            |-> cfg]

\* the lists of up to MaxApis APIs of a catalogue; no two APIs of a list share
\* their name
ApiLists(catalogue) ==
    UNION {{l \in [1..n -> catalogue] : \A i, j \in 1..n : i # j => l[i].name # l[j].name} :
              n \in 0..MaxApis}

(***************************************************************************)
(* rs_codegen as a state machine.                                          *)
(***************************************************************************)
InitGen(catalogue, configs) ==
    /\ apis \in ApiLists(catalogue)
    /\ \E cfg \in configs : self = Generator(apis, cfg)
    /\ pc = "start"
    /\ run = 1
    /\ methods_by_superclass = {}
    /\ trivial_subclasses = {}
    /\ results = <<>>
    /\ use_statements = <<>>
    /\ bindgen_root_items = <<>>
    /\ all_items = <<>>
    /\ prev_all_items = <<>>
    /\ owner_alive = TRUE
    /\ borrow_flag = 0
    /\ stack = <<>>
    /\ fault = None
    /\ host_calls = <<>>
    /\ calls = 0

\* line 166
AccumulateSuperclassMethods ==
    /\ pc = "start"
    /\ methods_by_superclass' = accumulate_superclass_methods(self.config, apis)
    /\ pc' = "methods"
    /\ UNCHANGED <<apis, self, run, trivial_subclasses, results, use_statements,
                   bindgen_root_items, all_items, prev_all_items>>
    /\ UNCHANGED rtvars

\* lines 167-168
FindTriviallyConstructedSubclasses ==
    /\ pc = "methods"
    /\ trivial_subclasses' = find_trivially_constructed_subclasses(apis)
    /\ pc' = "emit"
    /\ UNCHANGED <<apis, self, run, methods_by_superclass, results, use_statements,
                   bindgen_root_items, all_items, prev_all_items>>
    /\ UNCHANGED rtvars

\* lines 170-182: one turn of the map over all_apis
GenerateRsForApi ==
    /\ pc = "emit"
    /\ Len(results) < Len(apis)
    /\ LET api == apis[Len(results) + 1]
       IN  results' = Append(results,
                             [name |-> api.name,
                              gen  |-> generate_rs_for_api(self, api, methods_by_superclass,
                                                           trivial_subclasses)])
    /\ UNCHANGED <<apis, self, pc, run, methods_by_superclass, trivial_subclasses,
                   use_statements, bindgen_root_items, all_items, prev_all_items>>
    /\ UNCHANGED rtvars

\* lines 185-186
GenerateFinalUseStatements ==
    /\ pc = "emit"
    /\ Len(results) = Len(apis)
    /\ use_statements' = generate_final_use_statements(results)
    /\ pc' = "use"
    /\ UNCHANGED <<apis, self, run, methods_by_superclass, trivial_subclasses, results,
                   bindgen_root_items, all_items, prev_all_items>>
    /\ UNCHANGED rtvars

\* lines 188-189; the HashMaps of impl entries are iterated in some order
GenerateFinalBindgenMods ==
    /\ pc = "use"
    /\ \E order \in IterationOrders(results) :
           bindgen_root_items' = generate_final_bindgen_mods(self, results, order)
    /\ pc' = "bindgen"
    /\ UNCHANGED <<apis, self, run, methods_by_superclass, trivial_subclasses, results,
                   use_statements, all_items, prev_all_items>>
    /\ UNCHANGED rtvars

\* lines 192-256
Assemble ==
    /\ pc = "bindgen"
    /\ all_items' = assemble(self, apis, results, use_statements, bindgen_root_items)
    /\ pc' = "done"
    /\ UNCHANGED <<apis, self, run, methods_by_superclass, trivial_subclasses, results,
                   use_statements, bindgen_root_items, prev_all_items>>
    /\ UNCHANGED rtvars

\* generate_rs_code is called once more with the same arguments
Rerun ==
    /\ pc = "done"
    /\ run = 1
    /\ run' = 2
    /\ prev_all_items' = all_items
    /\ pc' = "start"
    /\ methods_by_superclass' = {}
    /\ trivial_subclasses' = {}
    /\ results' = <<>>
    /\ use_statements' = <<>>
    /\ bindgen_root_items' = <<>>
    /\ all_items' = <<>>
    /\ UNCHANGED <<apis, self>>
    /\ UNCHANGED rtvars

Next ==
    \/ AccumulateSuperclassMethods
    \/ FindTriviallyConstructedSubclasses
    \/ GenerateRsForApi
    \/ GenerateFinalUseStatements
    \/ GenerateFinalBindgenMods
    \/ Assemble

(***************************************************************************)
(* The APIs the specifications draw their inputs from.                     *)
(***************************************************************************)
Base == QualifiedName_new(<<>>, "Base")

Other == QualifiedName_new(<<"a">>, "Other")

\* types, constants and helpers spread over the namespaces ::, a, a::b and c
CatalogueTypes ==
    {ApiStruct(<<>>, "P", "Pod", Some("a pod")),
     ApiStruct(<<"a">>, "Q", "NonPod", Some("a class")),
     Extend(ApiStruct(<<"a">>, "Inner", "NonPodNested", None),
            [cpp_name |-> Some(<<"Outer", "Inner">>)]),
     ApiStruct(<<"c">>, "Abs", "Abstract", None),
     Api("ForwardDeclaration", <<"a", "b">>, "Fwd"),
     ApiEnum(<<"c">>, "E"),
     ApiConst(<<"a", "b">>, "K"),
     ApiTypedef(<<"a">>, "TD"),
     Api("StringConstructor", <<>>, "make_string"),
     Api("CType", <<>>, "c_int"),
     Extend(Api("RustType", <<>>, "RT"), [path |-> <<"RT">>])}

\* items whose analysis failed, and methods that share impl blocks with them
CatalogueErrors ==
    {ApiIgnoredItem(<<>>, "Bad", "X", ItemCtx("Bad")),
     ApiIgnoredItem(<<>>, "u8", "X", ItemCtx("u8")),
     ApiIgnoredItem(<<"a">>, "String", "Y", ItemCtx("String")),
     ApiIgnoredItem(<<"a">>, "m", "X", MethodCtx("T1", "m")),
     ApiIgnoredItem(<<"a">>, "n", "Y", MethodCtx("T2", "n")),
     ApiIgnoredItem(<<"a">>, "u8", "X", MethodCtx("T1", "u8")),
     ApiIgnoredItem(<<>>, "m", "Y", MethodCtx("u8", "m")),
     ApiMethod(<<"a">>, "get", QualifiedName_new(<<"a">>, "T1"), "Normal", "Const", <<>>, FALSE),
     ApiStruct(<<"a", "b">>, "P", "Pod", None)}

\* an extensible base, its methods, its subclasses and their constructors
CatalogueSubclasses ==
    {ApiStruct(<<>>, "Base", "NonPod", None),
     ApiMethod(<<>>, "foo", Base, "Virtual", "Mutable", <<"x">>, FALSE),
     ApiMethod(<<>>, "bar", Base, "PureVirtual", "Const", <<"x", "y">>, TRUE),
     ApiMethod(<<>>, "baz", Base, "Normal", "Const", <<"x">>, FALSE),
     ApiMethod(<<"a">>, "qux", Other, "Virtual", "Const", <<>>, FALSE),
     ApiFunction(<<"a">>, "free", <<"x">>),
     ApiSubclass("Sub", Base),
     ApiRustSubclassConstructor("Sub_new", "Sub", TRUE),
     ApiRustSubclassConstructor("Sub_new1", "Sub", FALSE),
     ApiRustSubclassConstructor("Sub_new2", "Sub", TRUE),
     ApiRustSubclassConstructor("Sub2_new", "Sub2", TRUE),
     ApiRustSubclassFn("Sub_foo", "Sub", Base, "foo", "Mutable", <<"x">>)}

Init == InitGen(CatalogueTypes, {Config({}, FALSE), Config({}, TRUE)})

InitErrors == InitGen(CatalogueErrors, {Config({}, FALSE)})

InitSubclasses ==
    InitGen(CatalogueSubclasses, {Config({}, FALSE), Config({<<"Base">>}, FALSE),
                                  Config({<<"Base">>, <<"a", "Other">>}, FALSE)})

\* a base with two virtual methods and one that is not, a subclass of it and
\* two constructors of the subclass
CatalogueDerived ==
    {ApiStruct(<<>>, "Base", "NonPod", None),
     ApiMethod(<<>>, "foo", Base, "Virtual", "Mutable", <<"x">>, FALSE),
     ApiMethod(<<>>, "bar", Base, "PureVirtual", "Const", <<"x", "y">>, TRUE),
     ApiMethod(<<>>, "baz", Base, "Normal", "Const", <<"x">>, FALSE),
     ApiSubclass("Sub", Base),
     ApiRustSubclassConstructor("Sub_new", "Sub", TRUE),
     ApiRustSubclassConstructor("Sub_new1", "Sub", FALSE)}

InitDerived ==
    /\ apis \in UNION {{l \in [1..n -> CatalogueDerived] :
                           \A i, j \in 1..n : i # j => l[i].name # l[j].name} :
                          n \in 0..MaxDerivedApis}
    /\ \E cfg \in {Config({}, FALSE), Config({<<"Base">>}, FALSE)} : self = Generator(apis, cfg)
    /\ pc = "start"
    /\ run = 1
    /\ methods_by_superclass = {}
    /\ trivial_subclasses = {}
    /\ results = <<>>
    /\ use_statements = <<>>
    /\ bindgen_root_items = <<>>
    /\ all_items = <<>>
    /\ prev_all_items = <<>>
    /\ owner_alive = TRUE
    /\ borrow_flag = 0
    /\ stack = <<>>
    /\ fault = None
    /\ host_calls = <<>>
    /\ calls = 0

SpecDerived == InitDerived /\ [][Next]_vars

NextTwice == Next \/ Rerun

Spec == Init /\ [][Next]_vars

SpecErrors == InitErrors /\ [][Next]_vars

SpecSubclasses == InitSubclasses /\ [][Next]_vars

SpecTwice == InitErrors /\ [][NextTwice]_vars

(***************************************************************************)
(* The forwarding function at run time.  generate_subclass_fn emits        *)
(*     let rc = me.0.get().expect(destroy_panic_msg);                      *)
(*     let b = rc.as_ref().try_borrow[_mut]().expect(reentrancy_panic_msg);*)
(*     let r = Deref[Mut]::deref[_mut](&b);                                *)
(*     Base_methods::method(r, args)                                       *)
(* and the foreign side calls it, possibly again from inside the host      *)
(* method.  A panic ends the process: nothing runs after it.               *)
(***************************************************************************)
\* the last has a parameter that is bound by a pattern other than an identifier
FwdApis ==
    {ApiRustSubclassFn("Sub_foo", "Sub", Base, "foo", "Mutable", <<"x">>),
     ApiRustSubclassFn("Sub_bar", "Sub", Base, "bar", "Const", <<"x", "y">>),
     [ApiRustSubclassFn("Sub_qux", "Sub", Base, "qux", "Const", <<"_", "y">>)
         EXCEPT !.details.params[2].pat = "Wild"]}

\* the function item emitted for a RustSubclassFn API
EmittedFn(api) ==
    generate_rs_for_api(Generator(<<api>>, Config({<<"Base">>}, FALSE)), api, {}, {})
        .global_items[1]

FwdApi(id) == CHOOSE api \in FwdApis : api.name.name = id

Body(frame) == EmittedFn(FwdApi(frame.api)).steps

Top == stack[Len(stack)]

InMethod(frame) == frame.ip > Len(Body(frame))

NextStep(frame) == Body(frame)[frame.ip]

Running == fault = None /\ stack # <<>> /\ ~InMethod(Top)

SetTop(frame) == [stack EXCEPT ![Len(stack)] = frame]

\* CppSubclassRustPeerHolder::get: the Rc is there while anybody holds it
Resolvable == owner_alive \/ \E i \in 1..Len(stack) : stack[i].rc

\* RefCell::try_borrow and RefCell::try_borrow_mut
try_borrow_ok(op) == IF op = "try_borrow" THEN borrow_flag >= 0 ELSE borrow_flag = 0

after_borrow(op) == IF op = "try_borrow" THEN borrow_flag + 1 ELSE -1

\* dropping a Ref or a RefMut
after_release(b) ==
    CASE b = "shared" -> borrow_flag - 1
      [] b = "mut" -> 0
      [] OTHER -> borrow_flag

InitFwd ==
    /\ apis = <<>>
    /\ self = Generator(<<>>, Config({<<"Base">>}, FALSE))
    /\ pc = "done"
    /\ run = 1
    /\ methods_by_superclass = {}
    /\ trivial_subclasses = {}
    /\ results = <<>>
    /\ use_statements = <<>>
    /\ bindgen_root_items = <<>>
    /\ all_items = <<>>
    /\ prev_all_items = <<>>
    /\ owner_alive = TRUE
    /\ borrow_flag = 0
    /\ stack = <<>>
    /\ fault = None
    /\ host_calls = <<>>
    /\ calls = 0

\* the foreign side calls a forwarding function, at top level or from inside
\* a host method that called back into foreign code
ForeignCall ==
    /\ fault = None
    /\ calls < MaxCalls
    /\ Len(stack) < MaxDepth
    /\ IF stack = <<>> THEN TRUE ELSE InMethod(Top)
    /\ \E api \in FwdApis :
           stack' = Append(stack, [api |-> api.name.name, ip |-> 1, rc |-> FALSE,
                                   b |-> "none", attempts |-> 0])
    /\ calls' = calls + 1
    /\ UNCHANGED <<owner_alive, borrow_flag, fault, host_calls>>
    /\ UNCHANGED genvars

\* me.0.get().expect(msg)
Resolve ==
    /\ Running
    /\ NextStep(Top).op = "get"
    /\ IF Resolvable
       THEN /\ stack' = SetTop([Top EXCEPT !.rc = TRUE, !.ip = @ + 1])
            /\ fault' = fault
       ELSE IF IsSome(NextStep(Top).msg)
       THEN /\ fault' = NextStep(Top).msg
            /\ stack' = stack
       ELSE /\ stack' = SetTop([Top EXCEPT !.ip = @ + 1])
            /\ fault' = fault
    /\ UNCHANGED <<owner_alive, borrow_flag, host_calls, calls>>
    /\ UNCHANGED genvars

\* rc.as_ref().try_borrow().expect(msg), or the same with try_borrow_mut
Borrow ==
    /\ Running
    /\ NextStep(Top).op \in {"try_borrow", "try_borrow_mut"}
    /\ LET op == NextStep(Top).op
           tried == [Top EXCEPT !.attempts = @ + 1]
       IN  IF try_borrow_ok(op)
           THEN /\ borrow_flag' = after_borrow(op)
                /\ stack' = SetTop([tried EXCEPT !.ip = @ + 1,
                                    !.b = IF op = "try_borrow" THEN "shared" ELSE "mut"])
                /\ fault' = fault
           ELSE IF IsSome(NextStep(Top).msg)
           THEN /\ fault' = NextStep(Top).msg
                /\ stack' = SetTop(tried)
                /\ borrow_flag' = borrow_flag
           ELSE /\ stack' = SetTop([tried EXCEPT !.ip = @ + 1])
                /\ fault' = fault
                /\ borrow_flag' = borrow_flag
    /\ UNCHANGED <<owner_alive, host_calls, calls>>
    /\ UNCHANGED genvars

\* std::ops::Deref::deref(&b), or DerefMut::deref_mut(&mut b)
Deref ==
    /\ Running
    /\ NextStep(Top).op \in {"deref", "deref_mut"}
    /\ stack' = SetTop([Top EXCEPT !.ip = @ + 1])
    /\ UNCHANGED <<owner_alive, borrow_flag, fault, host_calls, calls>>
    /\ UNCHANGED genvars

\* Base_methods::method(r, args): the host method starts
Invoke ==
    /\ Running
    /\ NextStep(Top).op = "call"
    /\ host_calls' = Append(host_calls, [callee |-> NextStep(Top).callee,
                                         args |-> NextStep(Top).args,
                                         frame |-> Len(stack)])
    /\ stack' = SetTop([Top EXCEPT !.ip = @ + 1])
    /\ UNCHANGED <<owner_alive, borrow_flag, fault, calls>>
    /\ UNCHANGED genvars

\* the host method returns: b and rc are dropped
Return ==
    /\ fault = None
    /\ stack # <<>>
    /\ InMethod(Top)
    /\ borrow_flag' = after_release(Top.b)
    /\ stack' = SubSeq(stack, 1, Len(stack) - 1)
    /\ UNCHANGED <<owner_alive, fault, host_calls, calls>>
    /\ UNCHANGED genvars

\* the host side lets go of the Rust object
DropOwner ==
    /\ fault = None
    /\ owner_alive
    /\ owner_alive' = FALSE
    /\ UNCHANGED <<borrow_flag, stack, fault, host_calls, calls>>
    /\ UNCHANGED genvars

NextFwd ==
    \/ ForeignCall
    \/ Resolve
    \/ Borrow
    \/ Deref
    \/ Invoke
    \/ Return
    \/ DropOwner

SpecFwd == InitFwd /\ [][NextFwd]_vars

(***************************************************************************)
(* Properties.                                                             *)
(***************************************************************************)
Accumulated == pc \notin {"start", "methods"}

IsConstructorOf(api, sub) == api.api = "RustSubclassConstructor" /\ api.subclass = sub

SubclassNames == {QualifiedName_new(<<>>, "Sub"), QualifiedName_new(<<>>, "Sub2")}

\* C1: once the partition is computed, a subclass is in
\* subclasses_with_a_single_trivial_constructor if and only if the API list
\* holds a trivial constructor of it and no non-trivial one, at whatever
\* positions of the list the constructors sit.
C1_TrivialEligibility ==
    Accumulated =>
        /\ trivial_subclasses \subseteq SubclassNames
        /\ \A sub \in SubclassNames :
               sub \in trivial_subclasses <=>
                   /\ \E i \in 1..Len(apis) :
                          IsConstructorOf(apis[i], sub) /\ apis[i].is_trivial
                   /\ \A i \in 1..Len(apis) :
                          IsConstructorOf(apis[i], sub) => apis[i].is_trivial

\* two different trivial constructors of Sub make it eligible, while Sub2,
\* which has no constructor in the list, is not
C1_Witness ==
    /\ pc = "done"
    /\ \E i, j \in 1..Len(apis) :
           /\ i # j
           /\ apis[i].name # apis[j].name
           /\ IsConstructorOf(apis[i], QualifiedName_new(<<>>, "Sub"))
           /\ IsConstructorOf(apis[j], QualifiedName_new(<<>>, "Sub"))
    /\ QualifiedName_new(<<>>, "Sub") \in trivial_subclasses
    /\ QualifiedName_new(<<>>, "Sub2") \notin trivial_subclasses

IsVirtualMethodOf(api, base) ==
    /\ api.api = "Function"
    /\ api.fnkind = "Method"
    /\ api.method_kind \in {"Virtual", "PureVirtual"}
    /\ api.receiver = base

\* C6: after accumulate_superclass_methods the map has one list per configured
\* superclass and no other; the list of B holds, in API order, one record per
\* Function API that is a virtual or pure virtual method of B, with the
\* parameter names in the original order, and the arguments forwarded for it
\* are those names without the receiver.
C6_SuperclassMethods ==
    Accumulated =>
        /\ {e.k : e \in methods_by_superclass} =
               {new_from_cpp_name(sc) : sc \in self.config.superclasses}
        /\ \A e \in methods_by_superclass :
               LET fs == SelectSeq(apis, LAMBDA api : IsVirtualMethodOf(api, e.k))
               IN  /\ Len(e.v) = Len(fs)
                   /\ \A i \in 1..Len(fs) :
                          /\ e.v[i].name = fs[i].name.name
                          /\ Len(e.v[i].param_names) = Len(fs[i].params)
                          /\ \A j \in 1..Len(fs[i].params) :
                                 e.v[i].param_names[j] = fs[i].params[j].name
                          /\ subclass_super_method(e.v[i]).args =
                                 [j \in 1..(Len(fs[i].params) - 1) |-> fs[i].params[j + 1].name]
                          /\ superclass_trait_items(e.v[i]).b.default[1].args =
                                 [j \in 1..(Len(fs[i].params) - 1) |-> fs[i].params[j + 1].name]

\* Base has a pure virtual method with two parameters after the receiver and,
\* listed before it, a method that is not virtual
C6_Witness ==
    /\ Accumulated
    /\ Len(apis) = 3
    /\ apis[1].api = "Function" /\ apis[1].method_kind = "Normal"
    /\ apis[2].api = "Function" /\ apis[2].method_kind = "PureVirtual"
    /\ apis[3].api = "Function" /\ apis[3].method_kind = "Virtual" /\ apis[3].receiver = Base
    /\ \E e \in methods_by_superclass :
           /\ e.k = Base
           /\ Len(e.v) = 2
           /\ e.v[1].param_names = <<"autocxx_gen_this", "x", "y">>

\* the panic messages of the forwarding function emitted for an API
DestroyedFault(id) ==
    Some(destroy_panic_msg(FwdApi(id).details.method_name, FwdApi(id).subclass,
                           FwdApi(id).details.superclass.name))

ReentrantFault(id) ==
    Some(reentrancy_panic_msg(FwdApi(id).details.method_name, FwdApi(id).subclass,
                              FwdApi(id).details.superclass.name))

\* C2: when a forwarding function is entered and the holder no longer
\* resolves to the host object, its first step panics with the "destroyed"
\* message: no borrow is attempted or acquired and no host method is invoked;
\* and after a panic nothing runs any more, so the fault is neither retried
\* nor swallowed.
C2_DestroyedBeforeBorrow ==
    [][/\ (/\ fault = None
           /\ stack # <<>>
           /\ Top.ip = 1
           /\ ~Resolvable
           /\ <<stack, fault, borrow_flag, host_calls>>' #
                  <<stack, fault, borrow_flag, host_calls>>)
          => /\ fault' = DestroyedFault(Top.api)
             /\ stack' = stack
             /\ Top.attempts = 0
             /\ borrow_flag' = borrow_flag
             /\ host_calls' = host_calls
       /\ fault # None => UNCHANGED <<stack, fault, borrow_flag, host_calls>>]_vars

\* a forwarding function died with the "destroyed" panic after an earlier
\* call had gone through
C2_Witness ==
    /\ stack # <<>>
    /\ fault = DestroyedFault(Top.api)
    /\ ~owner_alive
    /\ Top.attempts = 0
    /\ Top.b = "none"
    /\ borrow_flag = 0
    /\ host_calls # <<>>

IsMutable(frame) == FwdApi(frame.api).details.receiver_mutability = "Mutable"

\* C3: at most one frame holds an exclusive borrow; and while a frame holds
\* it, a later frame of a function with a mutable receiver holds no borrow,
\* is never inside the host method and, once it has tried to borrow, the
\* process has died with its "re-entrant" panic.
C3_NoSecondExclusiveBorrow ==
    /\ Cardinality({i \in 1..Len(stack) : stack[i].b = "mut"}) <= 1
    /\ \A i, j \in 1..Len(stack) :
           (i < j /\ stack[i].b = "mut" /\ IsMutable(stack[j])) =>
               /\ stack[j].b = "none"
               /\ ~InMethod(stack[j])
               /\ stack[j].attempts > 0 => fault = ReentrantFault(stack[j].api)

\* a mutable call re-entered from the host method of a mutable call has died
C3_Witness ==
    /\ Len(stack) = 2
    /\ stack[1].b = "mut"
    /\ InMethod(stack[1])
    /\ IsMutable(stack[2])
    /\ stack[2].attempts = 1
    /\ fault = ReentrantFault(stack[2].api)

IsFailedItem(api, ctx) == api.api = "IgnoredItem" /\ api.ctx.ctx = ctx

\* C4: the bundle of an IgnoredItem whose context is the whole item holds one
\* materialization and nothing else: a custom item that is a unit struct with
\* the error text as its #[doc]; the bridge declarations of both directions,
\* the bridge items, the bindgen mod items, the global items and the impl
\* entry are empty.  Generation goes on with the next API.
C4_WholeItemPlaceholder ==
    \A i \in 1..Len(results) :
        IsFailedItem(apis[i], "Item") =>
            LET g == results[i].gen
            IN  /\ Len(g.materializations) = 1
                /\ g.materializations[1].use = "Custom"
                /\ g.materializations[1].item.t = "struct"
                /\ g.materializations[1].item.body = "unit"
                /\ g.materializations[1].item.doc =
                       Some("autocxx bindings couldn't be generated: " \o apis[i].err)
                /\ g.extern_c_mod_items = <<>>
                /\ g.extern_rust_mod_items = <<>>
                /\ g.bridge_items = <<>>
                /\ g.bindgen_mod_items = <<>>
                /\ g.global_items = <<>>
                /\ g.impl_entry = None

\* generation has finished although the first API had failed, and the
\* placeholder is part of the output
C4_Witness ==
    /\ pc = "done"
    /\ Len(apis) = 3
    /\ IsFailedItem(apis[1], "Item")
    /\ apis[1].err = "X"
    /\ apis[2].api = "Struct"
    /\ \E k \in 1..Len(all_items) :
           /\ all_items[k].t = "struct"
           /\ all_items[k].doc = Some("autocxx bindings couldn't be generated: X")

\* the names of the placeholders of a bundle of generate_error_entry
PlaceholderNames(g) ==
    {g.materializations[k].item.id : k \in 1..Len(g.materializations)}
    \cup {g.impl_entry[k].item.id : k \in 1..Len(g.impl_entry)}

\* C5: the placeholder of a failed item is named by the item's identifier
\* with "_autocxx_error" appended when the identifier is the name of a
\* built-in type and by the identifier itself when it is not; and no
\* placeholder of generate_error_entry, whatever the context of the
\* failure, is named by the name of a built-in type.
C5_SanitizedPlaceholderName ==
    \A i \in 1..Len(results) :
        /\ IsFailedItem(apis[i], "Item") =>
               results[i].gen.materializations[1].item.id =
                   IF apis[i].ctx.id \in BuiltInTypeNames
                   THEN apis[i].ctx.id \o "_autocxx_error"
                   ELSE apis[i].ctx.id
        /\ apis[i].api = "IgnoredItem" =>
               PlaceholderNames(results[i].gen) \cap BuiltInTypeNames = {}

\* a failed item called u8 got the placeholder u8_autocxx_error, and one
\* called Bad kept its name
C5_Witness ==
    \E i, j \in 1..Len(results) :
        /\ IsFailedItem(apis[i], "Item")
        /\ apis[i].ctx.id = "u8"
        /\ results[i].gen.materializations[1].item.id = "u8_autocxx_error"
        /\ IsFailedItem(apis[j], "Item")
        /\ apis[j].ctx.id = "Bad"
        /\ results[j].gen.materializations[1].item.id = "Bad"

\* the namespace paths of up to two segments
Segments == {SegmentOrder[i] : i \in 1..Len(SegmentOrder)}

Paths == {<<>>} \cup {<<s>> : s \in Segments} \cup {<<s, u>> : s, u \in Segments}

\* whether a rendered tree has a scope for the namespace p, and its items
RECURSIVE HasScope(_, _)
HasScope(items, p) ==
    IF p = <<>> THEN TRUE
    ELSE LET mods == SelectSeq(items, LAMBDA it : IF it.t = "mod" THEN it.id = Head(p) ELSE FALSE)
         IN  IF mods = <<>> THEN FALSE ELSE HasScope(mods[1].items, Tail(p))

RECURSIVE ScopeAt(_, _)
ScopeAt(items, p) ==
    IF p = <<>> THEN items
    ELSE LET mods == SelectSeq(items, LAMBDA it : IF it.t = "mod" THEN it.id = Head(p) ELSE FALSE)
         IN  IF mods = <<>> THEN <<>> ELSE ScopeAt(mods[1].items, Tail(p))

\* the entries of the namespace p, in input order
EntriesAt(p) == SelectSeq(results, LAMBDA e : e.name.ns = p)

\* what the entries of the namespace p put into the scope of p in each tree
ReExportsAt(p) ==
    Flatten([i \in 1..Len(EntriesAt(p)) |->
                [j \in 1..Len(EntriesAt(p)[i].gen.materializations) |->
                    materialize(EntriesAt(p)[i].name, EntriesAt(p)[i].gen.materializations[j])]])

WrapperTypesAt(p) ==
    Flatten([i \in 1..Len(EntriesAt(p)) |-> EntriesAt(p)[i].gen.bindgen_mod_items])

HasEntriesUnder(p) == \E i \in 1..Len(results) : IsPrefix(p, results[i].name.ns)

RECURSIVE Declarations(_)
Declarations(items) ==
    Flatten([i \in 1..Len(items) |->
                <<items[i]>> \o (IF items[i].t \in {"mod", "foreign_mod"}
                                 THEN Declarations(items[i].items)
                                 ELSE <<>>)])

OfKind(items, kind) == SelectSeq(items, LAMBDA it : it.t = kind)

ReExports(items) ==
    SelectSeq(items, LAMBDA it : IF it.t = "use" THEN it.vis = "pub" ELSE FALSE)

OnePodRecord == Len(apis) = 1 /\ apis[1].api = "Struct" /\ apis[1].kind = "Pod"

\* C10: the output for a list of one Pod struct declares, at any depth,
\* exactly one struct, which is the struct of the input with its fields;
\* exactly one ExternType impl, of kind Trivial; exactly one type in the
\* bridge, under the name of the struct; and exactly one pub use, which
\* re-exports that name from the bridge without an alias.
C10_OnePodRecord ==
    (pc = "done" /\ OnePodRecord) =>
        LET all == Declarations(all_items)
            id  == apis[1].name.name
        IN  /\ OfKind(all, "struct") = <<apis[1].item>>
            /\ apis[1].item.body = "fields"
            /\ Len(OfKind(all, "impl_ExternType")) = 1
            /\ OfKind(all, "impl_ExternType")[1].kind = "Trivial"
            /\ OfKind(all, "impl_ExternType")[1].path[Len(OfKind(all, "impl_ExternType")[1].path)] = id
            /\ Len(OfKind(all, "cxx_type")) = 1
            /\ OfKind(all, "cxx_type")[1].id = id
            /\ Len(ReExports(all)) = 1
            /\ ReExports(all)[1].path = <<"cxxbridge", id>>
            /\ ReExports(all)[1].alias = None

\* the output for the one Pod struct P has been assembled
C10_Witness ==
    /\ pc = "done"
    /\ OnePodRecord
    /\ apis[1].name.name = "P"
    /\ Len(all_items) > 0

\* C9: when rs_codegen has run twice on the same list of APIs with the
\* same configuration, the second output is the first: the same
\* declarations in the same order in every scope, the merged impl blocks
\* included.
C9_Deterministic ==
    (run = 2 /\ pc = "done") => all_items = prev_all_items

\* the impls of a trait among the wrapper-type definitions of a bundle
ImplsOf(g, trait) ==
    SelectSeq(g.bindgen_mod_items,
              LAMBDA it : IF it.t = "impl_trait" THEN it.trait = trait ELSE FALSE)

InherentImpls(g) == SelectSeq(g.bindgen_mod_items, LAMBDA it : it.t = "impl")

\* the i-th API is a subclass whose superclass has two accumulated methods
\* and which gets a peer constructor, and its bundle is there
IsScenarioB(i) ==
    /\ i <= Len(results)
    /\ apis[i].api = "Subclass"
    /\ apis[i].name \in trivial_subclasses
    /\ IsSome(MapGet(methods_by_superclass, apis[i].superclass))
    /\ Len(MapGet(methods_by_superclass, apis[i].superclass)[1]) = 2

\* the bundle g of the subclass api: two forwarding methods in the one impl
\* of the trait, one CppPeerConstructor impl, one relinquish_ownership hook,
\* and the accessors as_ref and pin_mut
DerivedBundleShape(g, api, trait) ==
    LET cpp_id == get_final_ident(SubclassName_cpp(api.name))
        ms     == MapGet(methods_by_superclass, api.superclass)[1]
    IN  /\ Len(ImplsOf(g, trait)) = 1
        /\ ImplsOf(g, trait)[1].for = api.name.name
        /\ Len(ImplsOf(g, trait)[1].items) = 2
        /\ \A k \in 1..2 : ImplsOf(g, trait)[1].items[k].id = ms[k].name \o "_super"
        /\ Len(ImplsOf(g, <<"autocxx", "subclass", "CppPeerConstructor", cpp_id>>)) = 1
        /\ Len(ImplsOf(g, <<"autocxx", "subclass", "CppSubclassCppPeer">>)) = 1
        /\ Len(ImplsOf(g, <<"autocxx", "subclass", "CppSubclassCppPeer">>)[1].items) = 1
        /\ ImplsOf(g, <<"autocxx", "subclass", "CppSubclassCppPeer">>)[1].items[1].id
               = "relinquish_ownership"
        /\ Len(ImplsOf(g, <<"AsRef">> \o to_type_path(api.superclass))) = 1
        /\ ImplsOf(g, <<"AsRef">> \o to_type_path(api.superclass))[1].items[1].id = "as_ref"
        /\ Len(InherentImpls(g)) = 1
        /\ InherentImpls(g)[1].ty = api.name.name
        /\ InherentImpls(g)[1].items[1].id = "pin_mut"

\* C11 as stated: in scenario B the two forwarding methods are defined in an
\* impl of the "methods" trait of the superclass, next to one peer
\* constructor hook, one relinquish-ownership hook and both accessors.
C11_ForwardingOnMethodsTrait ==
    \A i \in 1..Len(apis) :
        IsScenarioB(i) =>
            DerivedBundleShape(results[i].gen, apis[i],
                               to_type_path(get_methods_trait_name(apis[i].superclass)))

\* C11 amended: in scenario B the two forwarding methods (x_super) are
\* defined in the one impl of the "supers" trait of the superclass, and the
\* bundle holds no impl of its "methods" trait; one peer constructor hook,
\* one relinquish-ownership hook and both accessors are there.
C11_ForwardingOnSupersTrait ==
    \A i \in 1..Len(apis) :
        IsScenarioB(i) =>
            /\ DerivedBundleShape(results[i].gen, apis[i],
                                  to_type_path(get_supers_trait_name(apis[i].superclass)))
            /\ ImplsOf(results[i].gen,
                       to_type_path(get_methods_trait_name(apis[i].superclass))) = <<>>

\* the bundle of Sub over Base with foo and bar accumulated and one trivial
\* constructor
C11_Witness ==
    /\ Len(apis) = 4
    /\ IsScenarioB(4)
    /\ apis[4].name.name = "Sub"
    /\ apis[4].superclass = Base
    /\ Len(results[4].gen.bindgen_mod_items) = 7

\* both passes have gone over all of apis: every configured superclass has a
\* list with one record per virtual method of it in apis, and the eligible
\* subclasses are those with a trivial constructor and no other in apis
PassesComplete ==
    /\ {e.k : e \in methods_by_superclass} =
           {new_from_cpp_name(sc) : sc \in self.config.superclasses}
    /\ \A e \in methods_by_superclass :
           Len(e.v) = Len(SelectSeq(apis, LAMBDA api : IsVirtualMethodOf(api, e.k)))
    /\ trivial_subclasses =
           {sub \in SubclassNames :
               /\ \E i \in 1..Len(apis) : IsConstructorOf(apis[i], sub) /\ apis[i].is_trivial
               /\ \A i \in 1..Len(apis) : IsConstructorOf(apis[i], sub) => apis[i].is_trivial}

\* C12: a step of rs_codegen that emits the bundle of an API starts from a
\* state in which both accumulation passes are complete over the whole API
\* list, and no step taken while the APIs are being emitted, that one
\* included, changes methods_by_superclass or
\* subclasses_with_a_single_trivial_constructor.
C12_AccumulateBeforeEmit ==
    [][/\ results' # results /\ results' # <<>> => pc = "emit" /\ PassesComplete
       /\ pc = "emit" => UNCHANGED <<methods_by_superclass, trivial_subclasses>>]_vars

\* all three APIs are emitted; a virtual method was accumulated from the last
\* of them and Sub found eligible
C12_Witness ==
    /\ pc = "emit"
    /\ Len(apis) = 3
    /\ Len(results) = 3
    /\ apis[1].api = "Subclass"
    /\ IsConstructorOf(apis[2], QualifiedName_new(<<>>, "Sub"))
    /\ IsVirtualMethodOf(apis[3], Base)
    /\ trivial_subclasses = {QualifiedName_new(<<>>, "Sub")}
    /\ \E e \in methods_by_superclass : e.k = Base /\ Len(e.v) = 1

\* how often x is among the items of a scope
Occurrences(items, x) == Cardinality({k \in 1..Len(items) : items[k] = x})

\* C13: once both trees are rendered, what a bundle contributes to a tree
\* (its materializations, rendered; its bindgen mod items) is found once in
\* the scope reached from the root through the segments of its name's
\* namespace, one scope inside the other, and in the scope of no other
\* namespace path; that scope and the scopes of all prefixes exist whether
\* or not a prefix has an entry of its own.
C13_PlacedAtNamespacePath ==
    pc = "done" =>
        \A i \in 1..Len(results) :
            LET ns == results[i].name.ns
                g  == results[i].gen
            IN  /\ \A j \in 1..Len(g.materializations) :
                       /\ HasScope(use_statements, ns)
                       /\ \A p \in Paths :
                              Occurrences(ScopeAt(use_statements, p),
                                          materialize(results[i].name, g.materializations[j]))
                                  = IF p = ns THEN 1 ELSE 0
                /\ \A j \in 1..Len(g.bindgen_mod_items) :
                       /\ HasScope(bindgen_root_items, ns)
                       /\ \A p \in Paths :
                              Occurrences(ScopeAt(bindgen_root_items, p), g.bindgen_mod_items[j])
                                  = IF p = ns THEN 1 ELSE 0

\* an API of the namespace a::b is rendered in both trees although no API
\* lives in a
C13_Witness ==
    /\ pc = "done"
    /\ \E i \in 1..Len(results) :
           /\ results[i].name.ns = <<"a", "b">>
           /\ results[i].gen.materializations # <<>>
           /\ results[i].gen.bindgen_mod_items # <<>>
    /\ EntriesAt(<<"a">>) = <<>>
    /\ EntriesAt(<<>>) # <<>>
    /\ HasScope(use_statements, <<"a", "b">>)
    /\ HasScope(bindgen_root_items, <<"a", "b">>)

\* C14: the bundle of an IgnoredItem whose context is a method of a type has
\* one of two shapes.  If the name of the type is not the name of a built-in
\* type: an impl entry for that type whose item is one documented function,
\* and no materialization.  If it is: no impl entry and one materialization,
\* a documented unit struct called <type>_method_<method>.  Nothing else is
\* in the bundle.
C14_MemberPlaceholder ==
    \A i \in 1..Len(results) :
        IsFailedItem(apis[i], "Method") =>
            LET g   == results[i].gen
                ctx == apis[i].ctx
                doc == Some("autocxx bindings couldn't be generated: " \o apis[i].err)
            IN  /\ g.extern_c_mod_items = <<>>
                /\ g.extern_rust_mod_items = <<>>
                /\ g.bridge_items = <<>>
                /\ g.bindgen_mod_items = <<>>
                /\ g.global_items = <<>>
                /\ IF ctx.self_ty \notin BuiltInTypeNames
                   THEN /\ g.materializations = <<>>
                        /\ Len(g.impl_entry) = 1
                        /\ g.impl_entry[1].ty = ctx.self_ty
                        /\ g.impl_entry[1].item.t = "impl_fn"
                        /\ g.impl_entry[1].item.doc = doc
                        /\ g.impl_entry[1].item.id \in {ctx.method, ctx.method \o "_autocxx_error"}
                   ELSE /\ g.impl_entry = None
                        /\ Len(g.materializations) = 1
                        /\ g.materializations[1].use = "Custom"
                        /\ g.materializations[1].item.t = "struct"
                        /\ g.materializations[1].item.doc = doc
                        /\ g.materializations[1].item.id =
                               ctx.self_ty \o "_method_" \o ctx.method

\* both shapes in one list: the failed method m of T1 and the failed method m
\* of u8
C14_Witness ==
    \E i, j \in 1..Len(results) :
        /\ IsFailedItem(apis[i], "Method")
        /\ apis[i].ctx.self_ty = "T1"
        /\ IsSome(results[i].gen.impl_entry)
        /\ IsFailedItem(apis[j], "Method")
        /\ apis[j].ctx.self_ty = "u8"
        /\ results[j].gen.materializations[1].item.id = "u8_method_m"

\* the bundle g of the type api has the traits <name>_supers and
\* <name>_methods for the recorded methods ms, and their two re-exports
HasCapabilities(g, api, ms) ==
    LET traits       == OfKind(g.bindgen_mod_items, "trait")
        supers_name  == api.name.name \o "_supers"
        methods_name == api.name.name \o "_methods"
    IN  /\ Len(traits) = 2
        /\ traits[1].id = supers_name
        /\ traits[2].id = methods_name
        /\ traits[2].supertrait = Some(supers_name)
        /\ Len(traits[1].items) = Len(ms)
        /\ Len(traits[2].items) = Len(ms)
        /\ \A k \in 1..Len(ms) :
               /\ traits[1].items[k].id = ms[k].name \o "_super"
               /\ traits[1].items[k].default = None
               /\ traits[2].items[k].id = ms[k].name
               /\ IsSome(traits[2].items[k].default)
               /\ traits[2].items[k].default[1].call = ms[k].name \o "_super"
               /\ traits[2].items[k].default[1].args =
                      SubSeq(ms[k].param_names, 2, Len(ms[k].param_names))
        /\ g.materializations =
               <<UsedFromCxxBridge, SpecificNameFromBindgen(methods_name),
                 SpecificNameFromBindgen(supers_name)>>

HasNoCapabilities(g) ==
    /\ OfKind(g.bindgen_mod_items, "trait") = <<>>
    /\ g.materializations = <<UsedFromCxxBridge>>

\* C15 as stated: the bundle of a type has the two traits and their
\* re-exports if the type is a configured superclass with at least one
\* recorded virtual method, and has none of them otherwise.
C15_CapabilitiesIffRecordedMethod ==
    \A i \in 1..Len(results) :
        apis[i].api = "Struct" =>
            LET ms == MapGet(methods_by_superclass, apis[i].name)
            IN  IF IF IsSome(ms) THEN ms[1] # <<>> ELSE FALSE
                THEN HasCapabilities(results[i].gen, apis[i], ms[1])
                ELSE HasNoCapabilities(results[i].gen)

\* C15 amended: the bundle of a type has the two traits and their re-exports
\* if the type is a configured superclass, whether or not a virtual method
\* of it was recorded, and has none of them otherwise; <name>_methods
\* requires <name>_supers and has, for each recorded method in order, one
\* function with a default body that calls the x_super function of
\* <name>_supers with the parameters after the receiver.
C15_CapabilitiesIffSuperclass ==
    \A i \in 1..Len(results) :
        apis[i].api = "Struct" =>
            LET ms == MapGet(methods_by_superclass, apis[i].name)
            IN  IF IsSome(ms)
                THEN HasCapabilities(results[i].gen, apis[i], ms[1])
                ELSE HasNoCapabilities(results[i].gen)

\* the bundle of Base with its two virtual methods recorded
C15_Witness ==
    /\ Len(results) = 3
    /\ apis[3].api = "Struct"
    /\ apis[3].name = Base
    /\ \E e \in methods_by_superclass : e.k = Base /\ Len(e.v) = 2
    /\ Len(OfKind(results[3].gen.bindgen_mod_items, "trait")[2].items) = 2

\* the borrow a forwarding call asks for
Requested(frame) == IF IsMutable(frame) THEN "mut" ELSE "shared"

\* an enclosing forwarding call holds a borrow of the host object
HeldBelow(j) == \E i \in 1..(j - 1) : stack[i].b # "none"

\* an enclosing forwarding call holds a borrow that RefCell does not grant the
\* requested one next to: any borrow against an exclusive request, an
\* exclusive borrow against a shared request
ConflictBelow(j) ==
    \E i \in 1..(j - 1) :
        /\ stack[i].b # "none"
        /\ IF IsMutable(stack[j]) THEN TRUE ELSE stack[i].b = "mut"

Refused(j) ==
    /\ stack[j].b = "none"
    /\ ~InMethod(stack[j])
    /\ fault = ReentrantFault(stack[j].api)

\* C16 as stated: a forwarding call holds no borrow or the one its receiver
\* asks for (exclusive if mutable, shared if not), and a call that has tried
\* to borrow while an enclosing call held a borrow has died with the
\* "re-entrant" panic without reaching the host method.
C16_HeldBorrowFaults ==
    \A j \in 1..Len(stack) :
        /\ stack[j].b \in {"none", Requested(stack[j])}
        /\ (stack[j].attempts > 0 /\ HeldBelow(j)) => Refused(j)

\* C16 amended: a forwarding call holds no borrow or the one its receiver
\* asks for; a call that has tried to borrow while an enclosing call held a
\* conflicting borrow (any borrow if it asks for the exclusive one, the
\* exclusive borrow if it asks for a shared one) has died with the
\* "re-entrant" panic without reaching the host method; and a call that has
\* tried to borrow without such a conflict, a shared request under a shared
\* borrow included, holds its borrow.
C16_ConflictingBorrowFaults ==
    \A j \in 1..Len(stack) :
        /\ stack[j].b \in {"none", Requested(stack[j])}
        /\ stack[j].attempts > 0 =>
               IF ConflictBelow(j) THEN Refused(j) ELSE stack[j].b = Requested(stack[j])

\* a call with a mutable receiver, re-entered from the host method of a call
\* that holds a shared borrow, has died
C16_Witness ==
    /\ Len(stack) = 2
    /\ stack[1].b = "shared"
    /\ InMethod(stack[1])
    /\ IsMutable(stack[2])
    /\ stack[2].attempts = 1
    /\ Refused(2)

MergedImplBlocks(p, ty) ==
    SelectSeq(SubSeq(ScopeAt(bindgen_root_items, p), Len(WrapperTypesAt(p)) + 1,
                     Len(ScopeAt(bindgen_root_items, p))),
              LAMBDA it : IF it.t = "impl" THEN it.ty = ty ELSE FALSE)

\* the items of the impl entries for ty among the entries of p, in input order
ImplEntryItems(p, ty) ==
    LET having == SelectSeq(EntriesAt(p), LAMBDA e : IF IsSome(e.gen.impl_entry)
                                                     THEN e.gen.impl_entry[1].ty = ty
                                                     ELSE FALSE)
    IN  [k \in 1..Len(having) |-> having[k].gen.impl_entry[1].item]

ImplTypes == {"T1", "T2", "u8"}

\* C18: in the tree of wrapper-type definitions, the scope of a namespace
\* holds for each type exactly one merged impl block if an entry of the
\* namespace has an impl entry for the type, and none if no entry has; the
\* block holds the items of all those impl entries, each once, in the order
\* of the entries.
C18_OneImplBlockPerType ==
    pc = "done" =>
        \A p \in Paths : \A ty \in ImplTypes :
            IF ImplEntryItems(p, ty) = <<>>
            THEN MergedImplBlocks(p, ty) = <<>>
            ELSE /\ Len(MergedImplBlocks(p, ty)) = 1
                 /\ MergedImplBlocks(p, ty)[1].items = ImplEntryItems(p, ty)

\* three impl entries in the namespace a, two of them for T1 with the one for
\* T2 between them
C18_Witness ==
    /\ pc = "done"
    /\ Len(ImplEntryItems(<<"a">>, "T1")) = 2
    /\ Len(ImplEntryItems(<<"a">>, "T2")) = 1
    /\ apis[2].api = "IgnoredItem"
    /\ apis[2].ctx.self_ty = "T2"
    /\ Len(MergedImplBlocks(<<"a">>, "T1")[1].items) = 2

\* the regions of the output of rs_codegen: the cxx::bridge mod stands before
\* the import of bindgen::root and the use statements, the bindgen mod, if
\* any, before it, and the global items before both; the two foreign mods
\* close the cxx::bridge mod
BridgeMod == all_items[Len(all_items) - Len(use_statements) - 1]

GlobalRegion ==
    SubSeq(all_items, 1, Len(all_items) - Len(use_statements) - 2
                         - (IF bindgen_root_items # <<>> THEN 1 ELSE 0))

BridgeRegion == SubSeq(BridgeMod.items, 1, Len(BridgeMod.items) - 2)

OutboundRegion ==
    SelectSeq(BridgeMod.items[Len(BridgeMod.items) - 1].items,
              LAMBDA it : it.t # "foreign_macro")

InboundRegion == BridgeMod.items[Len(BridgeMod.items)].items

\* C19: the output of rs_codegen holds, in the extern "C++" mod before the
\* include directives, in the extern "Rust" mod, in the cxx::bridge mod before
\* the two foreign mods and at the top level before the mods, the elements of
\* the extern_c_mod_items, extern_rust_mod_items, bridge_items and
\* global_items of all the results: each element once, the results in the
\* order of the items and the elements of one result in their order.
C19_FlatContentKept ==
    pc = "done" =>
        /\ BridgeMod.t = "mod"
        /\ BridgeMod.id = "cxxbridge"
        /\ OutboundRegion = Flatten([i \in 1..Len(results) |-> results[i].gen.extern_c_mod_items])
        /\ InboundRegion = Flatten([i \in 1..Len(results) |-> results[i].gen.extern_rust_mod_items])
        /\ BridgeRegion = Flatten([i \in 1..Len(results) |-> results[i].gen.bridge_items])
        /\ GlobalRegion = Flatten([i \in 1..Len(results) |-> results[i].gen.global_items])

\* two results with bridge items and global items, and results with inbound
\* and with outbound declarations
C19_Witness ==
    /\ pc = "done"
    /\ Cardinality({i \in 1..Len(results) : results[i].gen.bridge_items # <<>>}) >= 2
    /\ Cardinality({i \in 1..Len(results) : results[i].gen.global_items # <<>>}) >= 2
    /\ Cardinality({i \in 1..Len(results) : results[i].gen.extern_c_mod_items # <<>>}) >= 2
    /\ \E i \in 1..Len(results) : results[i].gen.extern_rust_mod_items # <<>>
    /\ Len(BridgeRegion) >= 2
    /\ Len(GlobalRegion) >= 2

\* the method f forwards the superclass method m to the C++ peer
ForwardsToPeer(f, m) ==
    /\ f.t = "impl_fn"
    /\ f.id = m.name \o "_super"
    /\ Len(f.sig) = Len(m.params)
    /\ f.sig[1].pat = "Receiver"
    /\ f.sig[1].ty = (IF m.receiver_mutability = "Const" THEN <<"&self">> ELSE <<"&mut self">>)
    /\ \A k \in 2..Len(f.sig) : f.sig[k] = m.params[k]
    /\ f.calls = <<IF m.receiver_mutability = "Const" THEN "peer" ELSE "peer_mut",
                   m.name \o "_super">>
    /\ f.args = Tail(m.param_names)

\* C20: the bundle of a subclass whose superclass has a list of accumulated
\* methods holds one impl of the supers trait of the superclass, with one
\* method per method of the list, in the order of the list: it is named by
\* the method with the suffix _super, takes &self and calls peer() if the
\* recorded receiver is const, takes &mut self and calls peer_mut() if it is
\* mutable, and passes the recorded parameter names but the first, in order.
C20_SuperForwardingMethods ==
    \A i \in 1..Len(results) :
        (/\ apis[i].api = "Subclass"
         /\ IsSome(MapGet(methods_by_superclass, apis[i].superclass))) =>
            LET ms    == MapGet(methods_by_superclass, apis[i].superclass)[1]
                impls == ImplsOf(results[i].gen,
                                 to_type_path(get_supers_trait_name(apis[i].superclass)))
            IN  /\ Len(impls) = 1
                /\ Len(impls[1].items) = Len(ms)
                /\ \A k \in 1..Len(ms) : ForwardsToPeer(impls[1].items[k], ms[k])

\* a subclass of Base after the mutable foo with one parameter and the const
\* bar with two
C20_Witness ==
    /\ Len(results) = 3
    /\ apis[3].api = "Subclass"
    /\ IsSome(MapGet(methods_by_superclass, apis[3].superclass))
    /\ Len(MapGet(methods_by_superclass, apis[3].superclass)[1]) = 2
    /\ MapGet(methods_by_superclass, apis[3].superclass)[1][1].receiver_mutability = "Mutable"
    /\ MapGet(methods_by_superclass, apis[3].superclass)[1][2].receiver_mutability = "Const"
    /\ Len(MapGet(methods_by_superclass, apis[3].superclass)[1][2].param_names) = 3
    /\ ImplsOf(results[3].gen, to_type_path(get_supers_trait_name(Base)))[1].items[2].args = <<"x", "y">>

\* the impls of CppPeerConstructor in the bundle g of the subclass sub
PeerConstructorImpls(g, sub) ==
    ImplsOf(g, <<"autocxx", "subclass", "CppPeerConstructor",
                 get_final_ident(SubclassName_cpp(sub))>>)

\* C21: the bundle of a Subclass API holds an impl of CppPeerConstructor if and
\* only if the name of the subclass is in
\* subclasses_with_a_single_trivial_constructor; a subclass with a non-trivial
\* constructor in the API list, or with no constructor in it, gets none.
C21_PeerConstructorIffEligible ==
    \A i \in 1..Len(results) :
        apis[i].api = "Subclass" =>
            LET n == Len(PeerConstructorImpls(results[i].gen, apis[i].name))
            IN  /\ n = (IF apis[i].name \in trivial_subclasses THEN 1 ELSE 0)
                /\ (\E j \in 1..Len(apis) :
                        IsConstructorOf(apis[j], apis[i].name) /\ ~apis[j].is_trivial) => n = 0
                /\ (\A j \in 1..Len(apis) : ~IsConstructorOf(apis[j], apis[i].name)) => n = 0

\* the subclass Sub with a trivial constructor before it and another after it
\* has got its impl of CppPeerConstructor
C21_Witness ==
    /\ Len(apis) = 3
    /\ Len(results) = 2
    /\ apis[2].api = "Subclass"
    /\ IsConstructorOf(apis[1], apis[2].name)
    /\ IsConstructorOf(apis[3], apis[2].name)
    /\ apis[2].name \in trivial_subclasses
    /\ Len(PeerConstructorImpls(results[2].gen, apis[2].name)) = 1
    /\ PeerConstructorImpls(results[2].gen, apis[2].name)[1].items[1].id = "make_peer"

\* the imports of target that a scope holds: private, relative to the scope
ImportsOf(scope, target) ==
    SelectSeq(scope, LAMBDA it : IF it.t = "use"
                                 THEN it.vis = "" /\ it.path[1] = "self"
                                      /\ it.path[Len(it.path)] = target
                                 ELSE FALSE)

\* the scope imports target once, through n parent steps
ImportsThrough(scope, target, n) ==
    /\ Len(ImportsOf(scope, target)) = 1
    /\ ImportsOf(scope, target)[1].path = <<"self">> \o [k \in 1..n |-> "super"] \o <<target>>

\* the re-exports a scope of the tree of re-exports holds
PubUses(scope) ==
    SelectSeq(scope, LAMBDA it : IF it.t = "use" THEN it.vis = "pub" ELSE FALSE)

\* C22: in the tree of wrapper-type definitions, the scope of a namespace of
\* depth d imports cxxbridge, and ToCppString if utilities are not excluded,
\* through d + 2 parent steps and root through d + 1; in the tree of
\* re-exports, every re-export in the scope of a namespace of depth d starts
\* with exactly d parent steps, which lead to cxxbridge or bindgen.
C22_ParentStepsMatchDepth ==
    pc = "done" =>
        \A p \in Paths :
            /\ HasScope(bindgen_root_items, p) =>
                   LET scope == ScopeAt(bindgen_root_items, p)
                   IN  /\ ImportsThrough(scope, "cxxbridge", Len(p) + 2)
                       /\ ImportsThrough(scope, "root", Len(p) + 1)
                       /\ IF self.config.exclude_utilities
                          THEN ImportsOf(scope, "ToCppString") = <<>>
                          ELSE ImportsThrough(scope, "ToCppString", Len(p) + 2)
            /\ HasScope(use_statements, p) =>
                   LET uses == PubUses(ScopeAt(use_statements, p))
                   IN  \A k \in 1..Len(uses) :
                           /\ Len(uses[k].path) > Len(p)
                           /\ SubSeq(uses[k].path, 1, Len(p)) = [n \in 1..Len(p) |-> "super"]
                           /\ uses[k].path[Len(p) + 1] \in {"cxxbridge", "bindgen"}

\* both trees have a scope for the namespace a::b, two levels down, with a
\* re-export in it, next to re-exports at the root
C22_Witness ==
    /\ pc = "done"
    /\ HasScope(bindgen_root_items, <<"a", "b">>)
    /\ HasScope(use_statements, <<"a", "b">>)
    /\ PubUses(ScopeAt(use_statements, <<"a", "b">>)) # <<>>
    /\ PubUses(ScopeAt(use_statements, <<>>)) # <<>>
    /\ ~self.config.exclude_utilities
    /\ ImportsOf(ScopeAt(bindgen_root_items, <<"a", "b">>), "ToCppString")[1].path
           = <<"self", "super", "super", "super", "super", "ToCppString">>

\* a scope of the tree of wrapper-type definitions in the output imports
\* ToCppString
ImportsToCppString ==
    \E k \in 1..Len(Declarations(all_items)) :
        LET it == Declarations(all_items)[k]
        IN  IF it.t = "use" THEN it.path[Len(it.path)] = "ToCppString" ELSE FALSE

\* the output defines the trait ToCppString among its global items
DefinesToCppString ==
    \E k \in 1..Len(GlobalRegion) :
        IF GlobalRegion[k].t = "trait" THEN GlobalRegion[k].id = "ToCppString" ELSE FALSE

\* the trait is defined exactly when the API list has a StringConstructor, and
\* imported exactly when utilities are not excluded
StringItemsFollowApiAndFlag ==
    pc = "done" =>
        /\ DefinesToCppString <=> \E i \in 1..Len(apis) : apis[i].api = "StringConstructor"
        /\ ImportsToCppString <=> ~self.config.exclude_utilities

IsStructOfKind(api, type_kind) == IF api.api = "Struct" THEN api.kind = type_kind ELSE FALSE

\* the ExternType impls of a bundle, and its value definitions
ExternTypeImpls(g) == OfKind(g.global_items, "impl_ExternType")

ValueDefinitions(g) ==
    SelectSeq(g.bindgen_mod_items, LAMBDA it : it.t \in {"struct", "enum"})

\* C24: an ExternType impl of kind Trivial is only emitted for a Pod type: in
\* every bundle, and so in the output, each such impl is the one of a Pod
\* struct or of an enum of the API list; a NonPodNested struct gets one
\* ExternType impl, of kind Opaque; a NonPod or Abstract struct gets no
\* ExternType impl and no struct or enum definition, but the declaration
\* of the type in the bridge, without a definition, and its re-export.
C24_TrivialOnlyForPod ==
    /\ \A i \in 1..Len(results) :
           LET g == results[i].gen
           IN  /\ \A k \in 1..Len(ExternTypeImpls(g)) :
                      ExternTypeImpls(g)[k].kind = "Trivial" =>
                          /\ IsStructOfKind(apis[i], "Pod") \/ apis[i].api = "Enum"
                          /\ ExternTypeImpls(g)[k].path = get_bindgen_path_idents(apis[i].name)
               /\ IsStructOfKind(apis[i], "NonPodNested") =>
                      /\ Len(ExternTypeImpls(g)) = 1
                      /\ ExternTypeImpls(g)[1].kind = "Opaque"
                      /\ ExternTypeImpls(g)[1].path = get_bindgen_path_idents(apis[i].name)
               /\ (IsStructOfKind(apis[i], "NonPod") \/ IsStructOfKind(apis[i], "Abstract")) =>
                      /\ ExternTypeImpls(g) = <<>>
                      /\ ValueDefinitions(g) = <<>>
                      /\ Len(g.extern_c_mod_items) = 1
                      /\ g.extern_c_mod_items[1].t = "cxx_type"
                      /\ g.extern_c_mod_items[1].definition = None
                      /\ g.materializations[1].use = "UsedFromCxxBridge"
    /\ pc = "done" =>
           \A k \in 1..Len(OfKind(Declarations(all_items), "impl_ExternType")) :
               LET impl == OfKind(Declarations(all_items), "impl_ExternType")[k]
               IN  impl.kind = "Trivial" =>
                       \E i \in 1..Len(apis) :
                           /\ IsStructOfKind(apis[i], "Pod") \/ apis[i].api = "Enum"
                           /\ impl.path = get_bindgen_path_idents(apis[i].name)

\* the output for a Pod struct, a NonPodNested struct and a NonPod or Abstract
\* struct: one impl of kind Trivial and one of kind Opaque
C24_Witness ==
    /\ pc = "done"
    /\ Len(apis) = 3
    /\ \E i \in 1..3 : IsStructOfKind(apis[i], "Pod")
    /\ \E i \in 1..3 : IsStructOfKind(apis[i], "NonPodNested")
    /\ \E i \in 1..3 : IsStructOfKind(apis[i], "NonPod") \/ IsStructOfKind(apis[i], "Abstract")
    /\ Len(OfKind(Declarations(all_items), "impl_ExternType")) = 2
    /\ \E k \in 1..2 : OfKind(Declarations(all_items), "impl_ExternType")[k].kind = "Trivial"
    /\ \E k \in 1..2 : OfKind(Declarations(all_items), "impl_ExternType")[k].kind = "Opaque"

====
